---- MODULE Spec2Model ----
(***************************************************************************)
(* A model of pg_index_reclaim.c: the merge of two adjacent B-tree leaf    *)
(* pages (execute_merge), the pages it works on, the page locks it takes,  *)
(* the full-page images it writes to the WAL, and recovery from them.      *)
(***************************************************************************)
EXTENDS Integers, Sequences, FiniteSets, TLC

\* ------------------------------------------------------------------ bounds

\* Leaf pages of the index; they are blocks 1..NLeaf, chained left to right.
NLeaf == 4
\* Data items a leaf page holds at most in the initial state.
MaxItems == 2
\* Page size in bytes (a scaled-down page: the layout arithmetic is the code's).
BLCKSZ == 128

\* ------------------------------------------------- page layout constants

SizeOfPageHeaderData == 24
SizeOfBTPageOpaqueData == 16
SizeOfItemIdData == 4
SizeOfIndexTupleData == 8
MAXIMUM_ALIGNOF == 8
P_NONE == 0
P_HIKEY == 1
P_FIRSTKEY == 2
InvalidOffsetNumber == 0
\* 0xFFFFFFFF, written as the 32-bit two's complement value
InvalidBlockNumber == -1
InvalidBuffer == 0
BTREE_METAPAGE == 0

MAXALIGN(n) == ((n + (MAXIMUM_ALIGNOF - 1)) \div MAXIMUM_ALIGNOF) * MAXIMUM_ALIGNOF

\* Block numbers: leaves 1..NLeaf, the root (an internal page), and one page
\* the relation was extended by that is still all zeroes.
RootBlk == NLeaf + 1
NewBlk == NLeaf + 2
Blocks == 1 .. NewBlk

\* Tuple sizes on the initial pages: data items and high keys.
DataLens == {16}
HKLens == {16, 48}
KeyStride == MaxItems + 1

\* ------------------------------------------------------------------ pages

\* An index tuple with its line pointer: key, ItemIdGetLength, number of key
\* attributes, and the block its t_tid names (downlink or top parent).
Tuple(k, l, n, b) == [key |-> k, len |-> l, natts |-> n, blk |-> b]

ZeroPage ==
    [new |-> TRUE, flags |-> {}, btpo_prev |-> 0, btpo_next |-> 0,
     btpo_level |-> 0, btpo_cycleid |-> 0, items |-> <<>>]

PageIsNew(page) == page.new
P_ISLEAF(opaque) == "BTP_LEAF" \in opaque.flags
P_ISDELETED(opaque) == "BTP_DELETED" \in opaque.flags
P_ISHALFDEAD(opaque) == "BTP_HALF_DEAD" \in opaque.flags
P_RIGHTMOST(opaque) == opaque.btpo_next = P_NONE
P_FIRSTDATAKEY(opaque) == IF P_RIGHTMOST(opaque) THEN P_HIKEY ELSE P_FIRSTKEY
PageGetMaxOffsetNumber(page) == Len(page.items)

RECURSIVE SumAligned(_)
SumAligned(items) ==
    IF items = <<>> THEN 0
    ELSE MAXALIGN(Head(items).len) + SumAligned(Tail(items))

pd_special == BLCKSZ - MAXALIGN(SizeOfBTPageOpaqueData)
pd_lower(page) == SizeOfPageHeaderData + SizeOfItemIdData * Len(page.items)
pd_upper(page) == pd_special - SumAligned(page.items)

PageGetFreeSpace(page) ==
    LET space == pd_upper(page) - pd_lower(page)
    IN IF space < SizeOfItemIdData THEN 0 ELSE space - SizeOfItemIdData

\* PageAddItem: InvalidOffsetNumber (the page unchanged) when the line
\* pointer and the aligned tuple do not fit between pd_lower and pd_upper.
PageAddItemFits(page, item) ==
    pd_lower(page) + SizeOfItemIdData <= pd_upper(page) - MAXALIGN(item.len)

PageAddItem(page, item, offnum) ==
    IF ~PageAddItemFits(page, item) THEN page
    ELSE IF offnum = InvalidOffsetNumber
         THEN [page EXCEPT !.items = Append(@, item)]
         ELSE [page EXCEPT !.items =
                  SubSeq(@, 1, offnum - 1) \o <<item>> \o SubSeq(@, offnum, Len(@))]

\* PageIndexMultiDelete: the items at the given offsets are removed and the
\* rest are compacted.
PageIndexMultiDelete(page, offsets) ==
    LET keep == {i \in 1 .. Len(page.items) : i \notin offsets}
        RECURSIVE Kept(_)
        Kept(i) == IF i > Len(page.items) THEN <<>>
                   ELSE (IF i \in keep THEN <<page.items[i]>> ELSE <<>>) \o Kept(i + 1)
    IN [page EXCEPT !.items = Kept(1)]

PageIndexTupleOverwrite(page, offnum, item) ==
    [page EXCEPT !.items[offnum] = item]

\* ------------------------------------------------------------------ state

VARIABLES
    pages,              \* shared buffers: block number -> page
    btm_root,           \* the metapage's root pointer
    needswal,           \* RelationNeedsWAL(rel)
    lock,               \* block number -> the processes holding its buffer lock
    wal,                \* full-page images logged since the call began
    pc,                 \* execute_merge: the step it is at
    left_block, right_block,
    leftsib, rightsib, is_rightmost,
    right_sibling_buf, left_sibling_buf,
    nleft_items, items_added,
    result,             \* what execute_merge returned: "none", "true", "false"
    pre,                \* the pages when the call began
    recovered,          \* the pages crash recovery rebuilt, <<>> before a crash
    rd_pc, rd_blkno, rd_total,   \* a leaf scan: its step, current block, pages counted
    rd_seen,            \* the keys the scan has read, in the order it read them
    rd_keys,            \* the keys on live leaves when the scan began
    mt_pc, mt_blk, mt_next,      \* a tree maintainer: its step and the pages it locks
    ev,                 \* execute_merge: what the call has done so far, in order
    x_pc, x_fn,         \* an SQL call: its step, and "execute" or "analyze"
    max_pct_to_merge,   \* its argument
    rel_lock,           \* the lock it holds on the index relation
    merge_candidates,   \* the list analyze_index_pages built
    x_lc,               \* the foreach position in that list
    merges_attempted, pages_merged,
    space_reclaimed,    \* the bytes the call reports as reclaimed
    x_pre,              \* the pages when the analysis ran
    x_invoked,          \* the list positions execute_merge was invoked on
    x_stale,            \* whether the candidate was stale when it was invoked
    o_pc, o_fn          \* another session: its step and what it runs on the index

mvars == <<pc, left_block, right_block, leftsib, rightsib, is_rightmost,
           right_sibling_buf, left_sibling_buf, nleft_items, items_added,
           result, pre, ev>>
ovars == <<o_pc, o_fn>>
xvars == <<x_pc, x_fn, max_pct_to_merge, rel_lock, merge_candidates, x_lc,
           merges_attempted, pages_merged, space_reclaimed, x_pre, x_invoked, x_stale,
           ovars>>
evars == <<rd_pc, rd_blkno, rd_total, rd_seen, rd_keys, mt_pc, mt_blk, mt_next, xvars>>
vars == <<pages, btm_root, needswal, lock, wal, recovered, mvars, evars>>

Leaves == 1 .. NLeaf

\* A leaf of the initial index: block b with n data items and, unless it is
\* the rightmost, a high key of hklen bytes.  Keys grow along the chain.
InitLeaf(b, n, hklen) ==
    [new |-> FALSE, flags |-> {"BTP_LEAF"},
     btpo_prev |-> IF b = 1 THEN P_NONE ELSE b - 1,
     btpo_next |-> IF b = NLeaf THEN P_NONE ELSE b + 1,
     btpo_level |-> 0,
     btpo_cycleid |-> IF b % 2 = 1 THEN 7 ELSE 0,
     items |-> (IF b = NLeaf THEN <<>> ELSE <<Tuple(b * KeyStride, hklen, 1, 0)>>)
               \o [i \in 1 .. n |->
                     Tuple((b - 1) * KeyStride + i, CHOOSE l \in DataLens : TRUE, 1, 0)]]

\* The root: one downlink per leaf, the first one being the leftmost child.
InitRoot ==
    [new |-> FALSE, flags |-> {"BTP_ROOT"},
     btpo_prev |-> P_NONE, btpo_next |-> P_NONE,
     btpo_level |-> 1, btpo_cycleid |-> 0,
     items |-> [i \in 1 .. NLeaf |->
                  IF i = 1 THEN Tuple(0, SizeOfIndexTupleData, 0, i)
                  ELSE Tuple((i - 1) * KeyStride, 16, 1, i)]]

PageFits(page) == pd_lower(page) <= pd_upper(page)

\* No SQL call is running.
InitCall ==
    /\ x_pc = "idle" /\ x_fn = "none"
    /\ max_pct_to_merge = 0
    /\ rel_lock = "NoLock"
    /\ merge_candidates = <<>> /\ x_lc = 0
    /\ merges_attempted = 0 /\ pages_merged = 0 /\ space_reclaimed = 0
    /\ x_pre = <<>>
    /\ x_invoked = <<>> /\ x_stale = FALSE

\* Everything but the pages and the metapage: no call is running, no lock is
\* held.
InitLocals ==
    /\ needswal \in BOOLEAN
    /\ lock = [b \in Blocks |-> {}]
    /\ wal = <<>>
    /\ pc = "idle"
    /\ left_block = P_NONE /\ right_block = P_NONE
    /\ leftsib = P_NONE /\ rightsib = P_NONE /\ is_rightmost = FALSE
    /\ right_sibling_buf = InvalidBuffer /\ left_sibling_buf = InvalidBuffer
    /\ nleft_items = 0 /\ items_added = 0
    /\ result = "none"
    /\ pre = pages
    /\ recovered = <<>>
    /\ rd_pc = "idle" /\ rd_blkno = P_NONE /\ rd_total = 0
    /\ rd_seen = <<>> /\ rd_keys = {}
    /\ mt_pc = "idle" /\ mt_blk = P_NONE /\ mt_next = P_NONE
    /\ ev = <<>>
    /\ InitCall
    /\ o_pc = "idle" /\ o_fn = "none"

\* Everything but the pages: the metapage names the root.
InitRest ==
    /\ btm_root = RootBlk
    /\ InitLocals

Init ==
    /\ \E n \in [Leaves -> 0 .. MaxItems], h \in [Leaves -> HKLens] :
          /\ pages = [b \in Blocks |->
                        IF b \in Leaves THEN InitLeaf(b, n[b], h[b])
                        ELSE IF b = RootBlk THEN InitRoot ELSE ZeroPage]
          /\ h[NLeaf] = 16
          /\ \A b \in Leaves : PageFits(pages[b])
    /\ InitRest

\* --------------------------------------------------------- execute_merge

Self == "merge"

LockFree(blk) == lock[blk] = {}
LockBuffer(lk, blk, who) == [lk EXCEPT ![blk] = @ \cup {who}]
UnlockReleaseBuffer(lk, blk, who) == [lk EXCEPT ![blk] = @ \ {who}]
UnlockIfValid(lk, buf, who) ==
    IF buf # InvalidBuffer THEN UnlockReleaseBuffer(lk, buf, who) ELSE lk

\* The data items of a page: offsets P_FIRSTDATAKEY .. maxoff.
DataItems(page) ==
    SubSeq(page.items, P_FIRSTDATAKEY(page), PageGetMaxOffsetNumber(page))

\* The validation of the left page, and of the right page and its left-link.
LeftPageValid(page) ==
    /\ ~PageIsNew(page)
    /\ P_ISLEAF(page)
    /\ ~P_ISDELETED(page)
    /\ ~P_ISHALFDEAD(page)

\* A validation of the right page that does not look at its left-link.
RightPageValid_NoLinkCheck(page, lblk) ==
    /\ ~PageIsNew(page)
    /\ P_ISLEAF(page)
    /\ ~P_ISDELETED(page)
    /\ ~P_ISHALFDEAD(page)

\* A validation of the right page that accepts a half-dead page.
RightPageValid_NoHalfDeadCheck(page, lblk) ==
    /\ ~PageIsNew(page)
    /\ P_ISLEAF(page)
    /\ ~P_ISDELETED(page)
    /\ page.btpo_prev = lblk

RightPageValid(page, lblk) ==
    /\ ~PageIsNew(page)
    /\ P_ISLEAF(page)
    /\ ~P_ISDELETED(page)
    /\ ~P_ISHALFDEAD(page)
    /\ page.btpo_prev = lblk

RightSiblingValid(page, rblk) == page.btpo_prev = rblk
LeftSiblingValid(page, lblk) == page.btpo_next = lblk

\* The space check: the aligned sizes of the data items of both pages
\* against the free space of the right page.
HasSpace(left_page, right_page) ==
    LET total_used == SumAligned(DataItems(left_page)) + SumAligned(DataItems(right_page))
        available_space == PageGetFreeSpace(right_page)
    IN ~(total_used > available_space)

\* A count of the left page's items that takes the high key for one of them.
NLeftItems_CountsHighKey(left_page) ==
    PageGetMaxOffsetNumber(left_page) - P_FIRSTDATAKEY(left_page) + 2

NLeftItems(left_page) ==
    PageGetMaxOffsetNumber(left_page) - P_FIRSTDATAKEY(left_page) + 1

\* What a call does is recorded as it happens: the kind of step and the block.
Ev(kind, blk) == <<kind, blk>>

\* A release in the order the locks were taken.
ReleaseEvents_AcquisitionOrder(lsbuf, rsbuf, rblk, lblk) ==
    <<Ev("unlock", lblk), Ev("unlock", rblk)>>
    \o (IF rsbuf # InvalidBuffer THEN <<Ev("unlock", rsbuf)>> ELSE <<>>)
    \o (IF lsbuf # InvalidBuffer THEN <<Ev("unlock", lsbuf)>> ELSE <<>>)

\* The unlocks of the final release and of the abort paths, in the code's order.
ReleaseEvents(lsbuf, rsbuf, rblk, lblk) ==
    (IF lsbuf # InvalidBuffer THEN <<Ev("unlock", lsbuf)>> ELSE <<>>)
    \o (IF rsbuf # InvalidBuffer THEN <<Ev("unlock", rsbuf)>> ELSE <<>>)
    \o <<Ev("unlock", rblk), Ev("unlock", lblk)>>

\* The critical section in the code's order: the writes to the right page, to
\* the left sibling and to the left page, then the page images.
CritEvents(lblk, rblk, lsbuf, walneeded) ==
    <<Ev("START_CRIT_SECTION", 0), Ev("write", rblk)>>
    \o (IF lsbuf # InvalidBuffer THEN <<Ev("write", lsbuf)>> ELSE <<>>)
    \o <<Ev("write", lblk)>>
    \o (IF walneeded
        THEN <<Ev("xlog", lblk), Ev("xlog", rblk)>>
             \o (IF lsbuf # InvalidBuffer THEN <<Ev("xlog", lsbuf)>> ELSE <<>>)
        ELSE <<>>)
    \o <<Ev("END_CRIT_SECTION", 0)>>

\* A release that forgets the two sibling buffers.
AbortUnlock_LeaksSiblings(lk, lsbuf, rsbuf, rblk, lblk) ==
    UnlockReleaseBuffer(UnlockReleaseBuffer(lk, rblk, Self), lblk, Self)

\* What the abort paths and the final release unlock, in the code's order.
AbortUnlock(lk, lsbuf, rsbuf, rblk, lblk) ==
    UnlockReleaseBuffer(
      UnlockReleaseBuffer(
        UnlockIfValid(UnlockIfValid(lk, lsbuf, Self), rsbuf, Self), rblk, Self), lblk, Self)

\* Step 1 of the critical section: the left page's items are added to the
\* right page one by one with PageAddItem; one that does not fit is skipped.
RECURSIVE AddLeftItems(_, _)
AddLeftItems(right_page, left_items) ==
    IF left_items = <<>> THEN right_page
    ELSE AddLeftItems(PageAddItem(right_page, Head(left_items), InvalidOffsetNumber),
                      Tail(left_items))

\* The placeholder high key of a half-dead page.
trunctuple == Tuple(0, SizeOfIndexTupleData, 0, InvalidBlockNumber)

\* A half-dead marking that leaves the old high key and cycle id in place.
MarkHalfDead_KeepsHighKey(left_page) ==
    LET firstdata == P_FIRSTDATAKEY(left_page)
        maxoff == PageGetMaxOffsetNumber(left_page)
        emptied == PageIndexMultiDelete(left_page, firstdata .. maxoff)
    IN [emptied EXCEPT !.flags = @ \cup {"BTP_HALF_DEAD"}]

\* A half-dead marking that also clears the page's right-link.
MarkHalfDead_DropsNext(left_page) ==
    [left_page EXCEPT !.items = <<trunctuple>>,
                      !.flags = @ \cup {"BTP_HALF_DEAD"},
                      !.btpo_cycleid = 0,
                      !.btpo_next = P_NONE]

\* The left page after the critical section: its data items deleted, marked
\* half-dead, its high key overwritten (or added) and its cycle id cleared.
MarkHalfDead(left_page) ==
    LET firstdata == P_FIRSTDATAKEY(left_page)
        maxoff == PageGetMaxOffsetNumber(left_page)
        emptied == IF maxoff - firstdata + 1 > 0
                   THEN PageIndexMultiDelete(left_page, firstdata .. maxoff)
                   ELSE left_page
        flagged == [emptied EXCEPT !.flags = @ \cup {"BTP_HALF_DEAD"}]
        withkey == IF PageGetMaxOffsetNumber(flagged) >= P_HIKEY
                   THEN PageIndexTupleOverwrite(flagged, P_HIKEY, trunctuple)
                   ELSE PageAddItem(flagged, trunctuple, P_HIKEY)
    IN [withkey EXCEPT !.btpo_cycleid = 0]

\* A relinking that also clears the left page's own links.
Relink_ClearsLeftLinks(pgs, lblk, rblk, lsib, lsbuf) ==
    LET p1 == [pgs EXCEPT ![rblk].btpo_prev = lsib]
        p2 == IF lsbuf # InvalidBuffer THEN [p1 EXCEPT ![lsbuf].btpo_next = rblk] ELSE p1
    IN [p2 EXCEPT ![lblk].btpo_prev = P_NONE, ![lblk].btpo_next = P_NONE]

\* The sibling links after the merge.
\* A relinking that also removes the left page's downlink from the root, a
\* page execute_merge holds no lock on.
Relink_AlsoParent(pgs, lblk, rblk, lsib, lsbuf) ==
    LET p1 == [pgs EXCEPT ![rblk].btpo_prev = lsib]
        p2 == IF lsbuf # InvalidBuffer THEN [p1 EXCEPT ![lsbuf].btpo_next = rblk] ELSE p1
    IN [p2 EXCEPT ![RootBlk].items = SelectSeq(@, LAMBDA t : t.blk # lblk)]

Relink(pgs, lblk, rblk, lsib, lsbuf) ==
    LET p1 == [pgs EXCEPT ![rblk].btpo_prev = lsib]
    IN IF lsbuf # InvalidBuffer THEN [p1 EXCEPT ![lsbuf].btpo_next = rblk] ELSE p1

\* The whole critical section on the pages.
MergePages(pgs, lblk, rblk, lsib, lsbuf) ==
    LET p1 == [pgs EXCEPT ![rblk] = AddLeftItems(@, DataItems(pgs[lblk]))]
        p2 == Relink(p1, lblk, rblk, lsib, lsbuf)
    IN [p2 EXCEPT ![lblk] = MarkHalfDead(@)]

\* log_newpage_buffer: one record holding the page's image.
XLogImage(pgs, blk) == [blk |-> blk, image |-> pgs[blk]]

\* A logging that forgets the image of the left sibling.
LogMerge_SkipsLeftSibling(pgs, lblk, rblk, lsbuf) ==
    <<XLogImage(pgs, lblk), XLogImage(pgs, rblk)>>

LogMerge(pgs, lblk, rblk, lsbuf) ==
    <<XLogImage(pgs, lblk), XLogImage(pgs, rblk)>>
    \o (IF lsbuf # InvalidBuffer THEN <<XLogImage(pgs, lsbuf)>> ELSE <<>>)

\* execute_merge is called with a candidate's two block numbers.
StartCall(l, r) ==
    /\ pc = "idle"
    /\ pc' = "lock_left"
    /\ left_block' = l /\ right_block' = r
    /\ pre' = pages
    /\ ev' = <<>>
    /\ UNCHANGED <<leftsib, rightsib, is_rightmost, right_sibling_buf, left_sibling_buf,
                   nleft_items, items_added, result>>
    /\ UNCHANGED <<pages, btm_root, needswal, lock, wal, recovered>>
    /\ UNCHANGED <<rd_pc, rd_blkno, rd_total, rd_seen, rd_keys, mt_pc, mt_blk, mt_next>>

Start(l, r) == StartCall(l, r) /\ UNCHANGED xvars

Abort(lk, events) ==
    /\ lock' = lk
    /\ ev' = ev \o events
    /\ pc' = "done"
    /\ result' = "false"

LockLeft ==
    /\ pc = "lock_left"
    /\ LockFree(left_block)
    /\ IF LeftPageValid(pages[left_block])
       THEN /\ lock' = LockBuffer(lock, left_block, Self)
            /\ ev' = ev \o <<Ev("lock", left_block), Ev("validate", left_block)>>
            /\ pc' = "lock_right"
            /\ UNCHANGED result
       ELSE Abort(UnlockReleaseBuffer(LockBuffer(lock, left_block, Self), left_block, Self),
                  <<Ev("lock", left_block), Ev("validate", left_block),
                    Ev("unlock", left_block)>>)
    /\ UNCHANGED <<pages, btm_root, needswal, wal, recovered, left_block, right_block,
                   leftsib, rightsib, is_rightmost, right_sibling_buf, left_sibling_buf,
                   nleft_items, items_added, pre>>
    /\ UNCHANGED evars

LockRight ==
    /\ pc = "lock_right"
    /\ LockFree(right_block)
    /\ IF RightPageValid(pages[right_block], left_block)
       THEN /\ lock' = LockBuffer(lock, right_block, Self)
            /\ ev' = ev \o <<Ev("lock", right_block), Ev("validate", right_block)>>
            /\ leftsib' = pages[left_block].btpo_prev
            /\ rightsib' = pages[right_block].btpo_next
            /\ is_rightmost' = P_RIGHTMOST(pages[right_block])
            /\ pc' = "lock_rsib"
            /\ UNCHANGED result
       ELSE /\ Abort(UnlockReleaseBuffer(
                       UnlockReleaseBuffer(LockBuffer(lock, right_block, Self),
                                           right_block, Self), left_block, Self),
                     <<Ev("lock", right_block), Ev("validate", right_block)>>
                     \o ReleaseEvents(InvalidBuffer, InvalidBuffer, right_block, left_block))
            /\ UNCHANGED <<leftsib, rightsib, is_rightmost>>
    /\ UNCHANGED <<pages, btm_root, needswal, wal, recovered, left_block, right_block,
                   right_sibling_buf, left_sibling_buf, nleft_items, items_added,
                   pre>>
    /\ UNCHANGED evars

LockRightSibling ==
    /\ pc = "lock_rsib"
    /\ IF is_rightmost
       THEN /\ pc' = "lock_lsib"
            /\ UNCHANGED <<lock, right_sibling_buf, result, ev>>
       ELSE /\ LockFree(rightsib)
            /\ IF RightSiblingValid(pages[rightsib], right_block)
               THEN /\ lock' = LockBuffer(lock, rightsib, Self)
                    /\ ev' = ev \o <<Ev("lock", rightsib), Ev("validate", rightsib)>>
                    /\ right_sibling_buf' = rightsib
                    /\ pc' = "lock_lsib"
                    /\ UNCHANGED result
               ELSE /\ Abort(AbortUnlock(LockBuffer(lock, rightsib, Self),
                                         InvalidBuffer, rightsib, right_block, left_block),
                             <<Ev("lock", rightsib), Ev("validate", rightsib)>>
                             \o ReleaseEvents(InvalidBuffer, rightsib, right_block, left_block))
                    /\ UNCHANGED right_sibling_buf
    /\ UNCHANGED <<pages, btm_root, needswal, wal, recovered, left_block, right_block,
                   leftsib, rightsib, is_rightmost, left_sibling_buf,
                   nleft_items, items_added, pre>>
    /\ UNCHANGED evars

LockLeftSibling ==
    /\ pc = "lock_lsib"
    /\ IF leftsib = P_NONE
       THEN /\ pc' = "check"
            /\ UNCHANGED <<lock, left_sibling_buf, result, ev>>
       ELSE /\ LockFree(leftsib)
            /\ IF LeftSiblingValid(pages[leftsib], left_block)
               THEN /\ lock' = LockBuffer(lock, leftsib, Self)
                    /\ ev' = ev \o <<Ev("lock", leftsib), Ev("validate", leftsib)>>
                    /\ left_sibling_buf' = leftsib
                    /\ pc' = "check"
                    /\ UNCHANGED result
               ELSE /\ Abort(AbortUnlock(LockBuffer(lock, leftsib, Self),
                                         leftsib, right_sibling_buf, right_block, left_block),
                             <<Ev("lock", leftsib), Ev("validate", leftsib)>>
                             \o ReleaseEvents(leftsib, right_sibling_buf, right_block, left_block))
                    /\ UNCHANGED left_sibling_buf
    /\ UNCHANGED <<pages, btm_root, needswal, wal, recovered, left_block, right_block,
                   leftsib, rightsib, is_rightmost, right_sibling_buf,
                   nleft_items, items_added, pre>>
    /\ UNCHANGED evars

\* The space check and the count of the left page's items, before the
\* critical section.
CheckSpace ==
    /\ pc = "check"
    /\ nleft_items' = NLeftItems(pages[left_block])
    /\ IF HasSpace(pages[left_block], pages[right_block])
          /\ NLeftItems(pages[left_block]) > 0
       THEN /\ pc' = "crit"
            /\ ev' = ev \o <<Ev("palloc", 0)>>
            /\ UNCHANGED <<lock, result>>
       ELSE Abort(AbortUnlock(lock, left_sibling_buf, right_sibling_buf,
                              right_block, left_block),
                  ReleaseEvents(left_sibling_buf, right_sibling_buf, right_block, left_block))
    /\ UNCHANGED <<pages, btm_root, needswal, wal, recovered, left_block, right_block,
                   leftsib, rightsib, is_rightmost, right_sibling_buf, left_sibling_buf,
                   items_added, pre>>
    /\ UNCHANGED evars

\* START_CRIT_SECTION .. END_CRIT_SECTION.
CriticalSection ==
    /\ pc = "crit"
    /\ pages' = MergePages(pages, left_block, right_block, leftsib, left_sibling_buf)
    /\ items_added' = Len(pages'[right_block].items) - Len(pages[right_block].items)
    /\ wal' = IF needswal
              THEN wal \o LogMerge(pages', left_block, right_block, left_sibling_buf)
              ELSE wal
    /\ ev' = ev \o CritEvents(left_block, right_block, left_sibling_buf, needswal)
    /\ pc' = "release"
    /\ UNCHANGED <<btm_root, needswal, lock, recovered, left_block, right_block,
                   leftsib, rightsib, is_rightmost, right_sibling_buf, left_sibling_buf,
                   nleft_items, result, pre>>
    /\ UNCHANGED evars

Release ==
    /\ pc = "release"
    /\ lock' = AbortUnlock(lock, left_sibling_buf, right_sibling_buf, right_block, left_block)
    /\ ev' = ev \o ReleaseEvents(left_sibling_buf, right_sibling_buf, right_block, left_block)
    /\ result' = "true"
    /\ pc' = "done"
    /\ UNCHANGED <<pages, btm_root, needswal, wal, recovered, left_block, right_block,
                   leftsib, rightsib, is_rightmost, right_sibling_buf, left_sibling_buf,
                   nleft_items, items_added, pre>>
    /\ UNCHANGED evars

\* The call has returned; the images it logged are checkpointed.
ReturnCall ==
    /\ pc = "done"
    /\ pc' = "idle"
    /\ left_block' = P_NONE /\ right_block' = P_NONE
    /\ leftsib' = P_NONE /\ rightsib' = P_NONE /\ is_rightmost' = FALSE
    /\ right_sibling_buf' = InvalidBuffer /\ left_sibling_buf' = InvalidBuffer
    /\ nleft_items' = 0 /\ items_added' = 0
    /\ result' = "none"
    /\ pre' = pages
    /\ wal' = <<>>
    /\ ev' = <<>>
    /\ UNCHANGED <<pages, btm_root, needswal, lock, recovered>>
    /\ UNCHANGED <<rd_pc, rd_blkno, rd_total, rd_seen, rd_keys, mt_pc, mt_blk, mt_next>>

Return == ReturnCall /\ UNCHANGED xvars

\* ------------------------------------------------------ crash and recovery

\* Redo from the state the call began in: each block takes the last image
\* logged for it among the first k records, the durable part of the WAL.
Redo(base, log, k) ==
    [b \in Blocks |->
        LET recs == {i \in 1 .. k : log[i].blk = b}
        IN IF recs = {} THEN base[b]
           ELSE log[CHOOSE i \in recs : \A j \in recs : j <= i].image]

Crash ==
    /\ pc \notin {"idle", "crashed"}
    /\ needswal
    /\ \E k \in 0 .. Len(wal) : recovered' = Redo(pre, wal, k)
    /\ pc' = "crashed"
    /\ lock' = [b \in Blocks |-> {}]
    /\ UNCHANGED <<pages, btm_root, needswal, wal, left_block, right_block,
                   leftsib, rightsib, is_rightmost, right_sibling_buf, left_sibling_buf,
                   nleft_items, items_added, result, pre, ev>>
    /\ UNCHANGED evars

\* The steps of a call between its begin and its return.
MergeBody ==
    \/ LockLeft
    \/ LockRight
    \/ LockRightSibling
    \/ LockLeftSibling
    \/ CheckSpace
    \/ CriticalSection
    \/ Release

\* The steps of a call once it has begun.
MergeSteps ==
    \/ MergeBody
    \/ Return

\* A candidate may be stale when the call is made: any two blocks.
Next ==
    \/ \E l \in Blocks, r \in Blocks : Start(l, r)
    \/ MergeSteps

Spec == Init /\ [][Next]_vars

\* The same with a crash allowed at any step of a call.
NextCrash == Next \/ Crash
SpecCrash == Init /\ [][NextCrash]_vars

\* ------------------------------------------------------- find_leftmost_leaf

BlockNumberIsValid(blk) == blk # InvalidBlockNumber

\* A line pointer is in use unless it is LP_UNUSED, whose length is 0.
ItemIdIsUsed(itemid) == itemid.len # 0

\* The descent along the first data item's downlink; n bounds the levels.
RECURSIVE Descend(_, _, _)
Descend(pgs, blkno, n) ==
    LET page == pgs[blkno]
        firstdata == P_FIRSTDATAKEY(page)
    IN IF PageIsNew(page) \/ P_ISDELETED(page) THEN P_NONE
       ELSE IF P_ISLEAF(page) THEN blkno
       ELSE IF PageGetMaxOffsetNumber(page) < firstdata THEN P_NONE
       ELSE IF ~ItemIdIsUsed(page.items[firstdata]) THEN P_NONE
       ELSE IF ~BlockNumberIsValid(page.items[firstdata].blk) THEN P_NONE
       ELSE IF n = 0 THEN P_NONE
       ELSE Descend(pgs, page.items[firstdata].blk, n - 1)

find_leftmost_leaf(pgs, root) ==
    IF root = P_NONE THEN P_NONE ELSE Descend(pgs, root, NewBlk)

\* A leaf that owns a key range: initialised, not deleted, not half-dead.
LiveLeaf(page) ==
    ~PageIsNew(page) /\ P_ISLEAF(page) /\ ~P_ISDELETED(page) /\ ~P_ISHALFDEAD(page)

ItemSet(items) == {items[i] : i \in 1 .. Len(items)}

\* ---------------------------------------------------- analyze_index_pages

\* RelationGetNumberOfBlocks: the metapage and the blocks of the model.
num_pages == NewBlk + 1

\* The bytes of a page that items can use.
total_space == BLCKSZ - SizeOfPageHeaderData - MAXALIGN(SizeOfBTPageOpaqueData)

\* The PageAnalysis entry of a live leaf.  usage_pct is the double
\* used_space / total_space * 100.0; it is kept as used_space, and compared
\* exactly (see UsageAbove).
PageStat(pgs, blkno) ==
    LET page == pgs[blkno]
    IN [blockno |-> blkno, is_leaf |-> TRUE, is_rightmost |-> P_RIGHTMOST(page),
        is_deleted |-> FALSE, is_halfdead |-> FALSE,
        item_count |-> Len(DataItems(page)),
        used_space |-> SumAligned(DataItems(page)),
        free_space |-> PageGetFreeSpace(page)]

\* A walk that a half-dead page ends.
RECURSIVE AnalyzeLeaves_StopsAtHalfDead(_, _, _, _)
AnalyzeLeaves_StopsAtHalfDead(pgs, blkno, arr, fuel) ==
    IF ~(blkno # P_NONE /\ Len(arr) < num_pages) \/ fuel = 0 THEN arr
    ELSE LET page == pgs[blkno]
         IN IF PageIsNew(page) THEN arr
            ELSE IF P_ISDELETED(page)
            THEN AnalyzeLeaves_StopsAtHalfDead(pgs, page.btpo_next, arr, fuel - 1)
            ELSE IF ~P_ISLEAF(page) THEN arr
            ELSE IF P_ISHALFDEAD(page) THEN arr
            ELSE AnalyzeLeaves_StopsAtHalfDead(pgs, page.btpo_next,
                                               Append(arr, PageStat(pgs, blkno)), fuel - 1)

\* The walk of the leaf level that fills the pages array; fuel bounds the
\* pages it passes.
RECURSIVE AnalyzeLeaves(_, _, _, _)
AnalyzeLeaves(pgs, blkno, arr, fuel) ==
    IF ~(blkno # P_NONE /\ Len(arr) < num_pages) \/ fuel = 0 THEN arr
    ELSE LET page == pgs[blkno]
         IN IF PageIsNew(page) THEN arr
            ELSE IF P_ISDELETED(page)
            THEN AnalyzeLeaves(pgs, page.btpo_next, arr, fuel - 1)
            ELSE IF ~P_ISLEAF(page) THEN arr
            ELSE IF P_ISHALFDEAD(page)
            THEN AnalyzeLeaves(pgs, page.btpo_next, arr, fuel - 1)
            ELSE AnalyzeLeaves(pgs, page.btpo_next, Append(arr, PageStat(pgs, blkno)),
                               fuel - 1)

\* usage_pct > max_pct_to_merge.  The quotient of the doubles is within a
\* rounding error of used_space * 100 / total_space, which is an integer only
\* at 0 and at total_space, where the doubles are exact.
UsageAbove(stat, pct) == stat.used_space * 100 > pct * total_space

\* A threshold test that skips a pair as soon as one page is above.
BothAbove_Either(left_page, right_page, pct) ==
    UsageAbove(left_page, pct) \/ UsageAbove(right_page, pct)

\* The threshold test: the pair is skipped when both pages are above.
BothAbove(left_page, right_page, pct) ==
    UsageAbove(left_page, pct) /\ UsageAbove(right_page, pct)

\* A fit test without the 10% headroom.
can_merge_NoHeadroom(left_page, right_page) ==
    LET combined_used == left_page.used_space + right_page.used_space
        avg_item_size == IF right_page.item_count > 0
                         THEN right_page.used_space \div right_page.item_count ELSE 0
        total_available == IF ~right_page.is_rightmost
                           THEN total_space - MAXALIGN(avg_item_size) ELSE total_space
    IN combined_used <= total_available

\* combined_used <= total_available * 0.9, on integers: total_available * 0.9
\* as a double is never below the exact product, and differs from it by less
\* than the distance to the next integer.
can_merge(left_page, right_page) ==
    LET combined_used == left_page.used_space + right_page.used_space
        avg_item_size == IF right_page.item_count > 0
                         THEN right_page.used_space \div right_page.item_count ELSE 0
        total_available == IF ~right_page.is_rightmost
                           THEN total_space - MAXALIGN(avg_item_size) ELSE total_space
    IN 10 * combined_used <= 9 * total_available

MergeCandidate(left_page, right_page) ==
    [left_page |-> left_page.blockno, right_page |-> right_page.blockno,
     left_used |-> left_page.used_space, right_used |-> right_page.used_space,
     total_items |-> left_page.item_count + right_page.item_count,
     estimated_space |-> left_page.used_space + right_page.used_space,
     can_merge |-> can_merge(left_page, right_page)]

\* The position of a block in the pages array, 0 when it is not there.
FindStat(arr, blk) ==
    LET hits == {j \in 1 .. Len(arr) : arr[j].blockno = blk}
    IN IF hits = {} THEN 0 ELSE CHOOSE j \in hits : \A k \in hits : j <= k

\* The selection loop from position i on: the candidates it appends.
RECURSIVE SelectCandidates(_, _, _, _)
SelectCandidates(pgs, arr, pct, i) ==
    IF i > Len(arr) THEN <<>>
    ELSE LET left_page == arr[i]
             right_blockno == pgs[left_page.blockno].btpo_next
             j == FindStat(arr, right_blockno)
             emitted ==
                IF left_page.is_rightmost THEN <<>>
                ELSE IF PageIsNew(pgs[left_page.blockno]) THEN <<>>
                ELSE IF right_blockno = P_NONE THEN <<>>
                ELSE IF j = 0 THEN <<>>
                ELSE IF left_page.is_deleted \/ left_page.is_halfdead
                        \/ arr[j].is_deleted \/ arr[j].is_halfdead THEN <<>>
                ELSE IF BothAbove(left_page, arr[j], pct) THEN <<>>
                ELSE <<MergeCandidate(left_page, arr[j])>>
         IN emitted \o SelectCandidates(pgs, arr, pct, i + 1)

analyze_index_pages(pgs, root, pct) ==
    LET leftmost_leaf == find_leftmost_leaf(pgs, root)
    IN IF num_pages <= 1 THEN <<>>
       ELSE IF leftmost_leaf = P_NONE THEN <<>>
       ELSE SelectCandidates(pgs, AnalyzeLeaves(pgs, leftmost_leaf, <<>>, 2 * NewBlk), pct, 1)

\* ------------------------------------------------------------- leaf scan

\* The walk of the leaf level: from the leftmost leaf along btpo_next, one
\* page read-locked at a time.  Deleted and half-dead pages are passed over, a
\* new page or one that is no leaf ends it.  Where analyze_index_pages
\* counts a page's items, the scan here keeps their keys.
Keys(items) == [i \in 1 .. Len(items) |-> items[i].key]

ScanStart ==
    /\ rd_pc = "idle"
    /\ rd_blkno' = find_leftmost_leaf(pages, btm_root)
    /\ rd_pc' = IF rd_blkno' = P_NONE THEN "done" ELSE "scan"
    /\ rd_total' = 0
    /\ rd_seen' = <<>>
    /\ rd_keys' = UNION {{it.key : it \in ItemSet(DataItems(pages[b]))} :
                            b \in {x \in Blocks : LiveLeaf(pages[x])}}
    /\ UNCHANGED <<pages, btm_root, needswal, lock, wal, recovered, mvars,
                   mt_pc, mt_blk, mt_next, xvars>>

ScanPage ==
    /\ rd_pc = "scan"
    /\ IF ~(rd_blkno # P_NONE /\ rd_total < num_pages)
       THEN /\ rd_pc' = "done"
            /\ UNCHANGED <<rd_blkno, rd_total, rd_seen>>
       ELSE /\ LockFree(rd_blkno)
            /\ LET page == pages[rd_blkno]
               IN IF PageIsNew(page) \/ (~P_ISDELETED(page) /\ ~P_ISLEAF(page))
                  THEN /\ rd_pc' = "done"
                       /\ UNCHANGED <<rd_blkno, rd_total, rd_seen>>
                  ELSE IF P_ISDELETED(page) \/ P_ISHALFDEAD(page)
                  THEN /\ rd_blkno' = page.btpo_next
                       /\ UNCHANGED <<rd_pc, rd_total, rd_seen>>
                  ELSE /\ rd_seen' = rd_seen \o Keys(DataItems(page))
                       /\ rd_total' = rd_total + 1
                       /\ rd_blkno' = page.btpo_next
                       /\ UNCHANGED rd_pc
    /\ UNCHANGED <<pages, btm_root, needswal, lock, wal, recovered, mvars,
                   rd_keys, mt_pc, mt_blk, mt_next, xvars>>

\* The walk alone, on a leaf level whose first NWalk pages are in any state
\* and linked in any way, cycles included.  Every leaf holds one entry, whose
\* key is the page's block number.
NWalk == 3
WalkLeaves == 1 .. NWalk
WalkKinds == {"live", "halfdead", "deleted", "new", "internal"}

WalkPage(b, kind, next) ==
    IF kind = "new" THEN ZeroPage
    ELSE [new |-> FALSE,
          flags |-> IF kind = "live" THEN {"BTP_LEAF"}
                    ELSE IF kind = "halfdead" THEN {"BTP_LEAF", "BTP_HALF_DEAD"}
                    ELSE IF kind = "deleted" THEN {"BTP_LEAF", "BTP_DELETED"}
                    ELSE {},
          btpo_prev |-> P_NONE,
          btpo_next |-> next,
          btpo_level |-> IF kind = "internal" THEN 1 ELSE 0,
          btpo_cycleid |-> 0,
          items |-> (IF next = P_NONE THEN <<>> ELSE <<Tuple(b, 16, 1, 0)>>)
                    \o <<Tuple(b, 16, 1, 0)>>]

InitWalk ==
    /\ \E kind \in [WalkLeaves -> WalkKinds], next \in [WalkLeaves -> {P_NONE} \cup WalkLeaves] :
          /\ kind[1] # "internal"
          /\ pages = [b \in Blocks |->
                        IF b \in WalkLeaves THEN WalkPage(b, kind[b], next[b])
                        ELSE IF b = RootBlk THEN InitRoot
                        ELSE IF b \in Leaves THEN WalkPage(b, "live", P_NONE)
                        ELSE ZeroPage]
    /\ InitRest
    /\ needswal

NextWalk == ScanStart \/ ScanPage

SpecWalk == InitWalk /\ [][NextWalk]_vars /\ WF_vars(NextWalk)

\* ------------------------------------------------------ buffer locks of the
\* read-only functions

\* What find_leftmost_leaf, the leaf walk and the selection loop do to buffer
\* locks, in program order.  Every branch of the source that ends the work on
\* a page carries its own UnlockReleaseBuffer, and is written out as such.
RdLock(blk) == [op |-> "LockBuffer", blk |-> blk, mode |-> "BT_READ"]
RdUnlock(blk) == [op |-> "UnlockReleaseBuffer", blk |-> blk, mode |-> "BT_READ"]

RECURSIVE DescendLocks(_, _, _)
DescendLocks(pgs, blkno, n) ==
    LET page == pgs[blkno]
        firstdata == P_FIRSTDATAKEY(page)
    IN <<RdLock(blkno)>> \o
       (IF PageIsNew(page) \/ P_ISDELETED(page) THEN <<RdUnlock(blkno)>>
        ELSE IF P_ISLEAF(page) THEN <<RdUnlock(blkno)>>
        ELSE IF PageGetMaxOffsetNumber(page) < firstdata THEN <<RdUnlock(blkno)>>
        ELSE IF ~ItemIdIsUsed(page.items[firstdata]) THEN <<RdUnlock(blkno)>>
        ELSE IF ~BlockNumberIsValid(page.items[firstdata].blk) THEN <<RdUnlock(blkno)>>
        ELSE <<RdUnlock(blkno)>> \o
             (IF n = 0 THEN <<>>
              ELSE DescendLocks(pgs, page.items[firstdata].blk, n - 1)))

find_leftmost_leaf_Locks(pgs, root) ==
    <<RdLock(BTREE_METAPAGE)>> \o
    (IF root = P_NONE THEN <<RdUnlock(BTREE_METAPAGE)>>
     ELSE <<RdUnlock(BTREE_METAPAGE)>> \o DescendLocks(pgs, root, NewBlk))

\* A walk whose pass over a deleted page keeps that page's lock.
RECURSIVE AnalyzeLeavesLocks_SkipKeepsLock(_, _, _, _)
AnalyzeLeavesLocks_SkipKeepsLock(pgs, blkno, total_pages, fuel) ==
    IF ~(blkno # P_NONE /\ total_pages < num_pages) \/ fuel = 0 THEN <<>>
    ELSE LET page == pgs[blkno]
         IN <<RdLock(blkno)>> \o
            (IF PageIsNew(page) THEN <<RdUnlock(blkno)>>
             ELSE IF P_ISDELETED(page)
             THEN AnalyzeLeavesLocks_SkipKeepsLock(pgs, page.btpo_next, total_pages, fuel - 1)
             ELSE IF ~P_ISLEAF(page) THEN <<RdUnlock(blkno)>>
             ELSE IF P_ISHALFDEAD(page)
             THEN <<RdUnlock(blkno)>> \o
                  AnalyzeLeavesLocks_SkipKeepsLock(pgs, page.btpo_next, total_pages, fuel - 1)
             ELSE <<RdUnlock(blkno)>> \o
                  AnalyzeLeavesLocks_SkipKeepsLock(pgs, page.btpo_next, total_pages + 1,
                                                   fuel - 1))

\* The walk: the page is locked at the top of the loop body; the two breaks,
\* the two continues and the end of the body each release it.
RECURSIVE AnalyzeLeavesLocks(_, _, _, _)
AnalyzeLeavesLocks(pgs, blkno, total_pages, fuel) ==
    IF ~(blkno # P_NONE /\ total_pages < num_pages) \/ fuel = 0 THEN <<>>
    ELSE LET page == pgs[blkno]
         IN <<RdLock(blkno)>> \o
            (IF PageIsNew(page) THEN <<RdUnlock(blkno)>>
             ELSE IF P_ISDELETED(page)
             THEN <<RdUnlock(blkno)>> \o
                  AnalyzeLeavesLocks(pgs, page.btpo_next, total_pages, fuel - 1)
             ELSE IF ~P_ISLEAF(page) THEN <<RdUnlock(blkno)>>
             ELSE IF P_ISHALFDEAD(page)
             THEN <<RdUnlock(blkno)>> \o
                  AnalyzeLeavesLocks(pgs, page.btpo_next, total_pages, fuel - 1)
             ELSE <<RdUnlock(blkno)>> \o
                  AnalyzeLeavesLocks(pgs, page.btpo_next, total_pages + 1, fuel - 1))

\* The selection loop: the left page is locked again to read its right link;
\* the right page is looked up in the pages array and is not locked.
RECURSIVE SelectCandidatesLocks(_, _, _)
SelectCandidatesLocks(pgs, arr, i) ==
    IF i > Len(arr) THEN <<>>
    ELSE LET left_page == arr[i]
             locks ==
                IF left_page.is_rightmost THEN <<>>
                ELSE IF PageIsNew(pgs[left_page.blockno])
                THEN <<RdLock(left_page.blockno), RdUnlock(left_page.blockno)>>
                ELSE <<RdLock(left_page.blockno), RdUnlock(left_page.blockno)>>
         IN locks \o SelectCandidatesLocks(pgs, arr, i + 1)

analyze_index_pages_Locks(pgs, root) ==
    LET leftmost_leaf == find_leftmost_leaf(pgs, root)
    IN IF num_pages <= 1 THEN <<>>
       ELSE find_leftmost_leaf_Locks(pgs, root) \o
            (IF leftmost_leaf = P_NONE THEN <<>>
             ELSE AnalyzeLeavesLocks(pgs, leftmost_leaf, 0, 2 * NewBlk) \o
                  SelectCandidatesLocks(pgs, AnalyzeLeaves(pgs, leftmost_leaf, <<>>,
                                                           2 * NewBlk), 1))

\* The analysis alone, one lock call at a time, on a leaf chain 1 .. NLeaf
\* whose pages are in any state, under a root that is sound, new, deleted,
\* empty, has an unused first entry, holds an invalid downlink, or is missing
\* from the metapage.
RootKinds == {"sound", "new", "deleted", "empty", "unused", "baddownlink", "none"}

RootPage(kind) ==
    IF kind = "new" THEN ZeroPage
    ELSE IF kind = "deleted" THEN [InitRoot EXCEPT !.flags = {"BTP_DELETED"}]
    ELSE IF kind = "empty" THEN [InitRoot EXCEPT !.items = <<>>]
    ELSE IF kind = "unused" THEN [InitRoot EXCEPT !.items[1] = Tuple(0, 0, 0, 1)]
    ELSE IF kind = "baddownlink"
    THEN [InitRoot EXCEPT !.items[1] = Tuple(0, SizeOfIndexTupleData, 0, InvalidBlockNumber)]
    ELSE InitRoot

InitRead ==
    /\ \E kind \in [Leaves -> WalkKinds], root \in RootKinds :
          /\ kind[1] # "internal"
          /\ pages = [b \in Blocks |->
                        IF b \in Leaves
                        THEN WalkPage(b, kind[b], IF b = NLeaf THEN P_NONE ELSE b + 1)
                        ELSE IF b = RootBlk THEN RootPage(root) ELSE ZeroPage]
          /\ btm_root = IF root = "none" THEN P_NONE ELSE RootBlk
    /\ InitLocals
    /\ needswal

ReadStart ==
    /\ rd_pc = "idle"
    /\ rd_pc' = "locks"
    /\ ev' = <<>>
    /\ UNCHANGED <<pages, btm_root, needswal, lock, wal, recovered,
                   pc, left_block, right_block, leftsib, rightsib, is_rightmost,
                   right_sibling_buf, left_sibling_buf, nleft_items, items_added,
                   result, pre, rd_blkno, rd_total, rd_seen, rd_keys,
                   mt_pc, mt_blk, mt_next, xvars>>

\* The next lock call of the analysis, or its return.
ReadStep ==
    /\ rd_pc = "locks"
    /\ LET calls == analyze_index_pages_Locks(pages, btm_root)
       IN IF Len(ev) < Len(calls)
          THEN /\ ev' = Append(ev, calls[Len(ev) + 1])
               /\ UNCHANGED rd_pc
          ELSE /\ rd_pc' = "done"
               /\ UNCHANGED ev
    /\ UNCHANGED <<pages, btm_root, needswal, lock, wal, recovered,
                   pc, left_block, right_block, leftsib, rightsib, is_rightmost,
                   right_sibling_buf, left_sibling_buf, nleft_items, items_added,
                   result, pre, rd_blkno, rd_total, rd_seen, rd_keys,
                   mt_pc, mt_blk, mt_next, xvars>>

NextRead == ReadStart \/ ReadStep

SpecRead == InitRead /\ [][NextRead]_vars

\* ------------------------------------------- find_leftmost_leaf, by steps

\* One round of the descent's loop on a page it has locked: whether it
\* returns, what it returns, and the child it goes on to otherwise.
Returns(blk) == [ret |-> TRUE, blkno |-> blk]
GoesTo(child) == [ret |-> FALSE, blkno |-> child]

\* A round that takes a deleted page for a leaf.
ExaminePage_NoDeletedCheck(page, blkno) ==
    LET firstdata == P_FIRSTDATAKEY(page)
    IN IF PageIsNew(page) THEN Returns(P_NONE)
       ELSE IF P_ISLEAF(page) THEN Returns(blkno)
       ELSE IF PageGetMaxOffsetNumber(page) < firstdata THEN Returns(P_NONE)
       ELSE IF ~ItemIdIsUsed(page.items[firstdata]) THEN Returns(P_NONE)
       ELSE IF ~BlockNumberIsValid(page.items[firstdata].blk) THEN Returns(P_NONE)
       ELSE GoesTo(page.items[firstdata].blk)

ExaminePage(page, blkno) ==
    LET firstdata == P_FIRSTDATAKEY(page)
    IN IF PageIsNew(page) \/ P_ISDELETED(page) THEN Returns(P_NONE)
       ELSE IF P_ISLEAF(page) THEN Returns(blkno)
       ELSE IF PageGetMaxOffsetNumber(page) < firstdata THEN Returns(P_NONE)
       ELSE IF ~ItemIdIsUsed(page.items[firstdata]) THEN Returns(P_NONE)
       ELSE IF ~BlockNumberIsValid(page.items[firstdata].blk) THEN Returns(P_NONE)
       ELSE GoesTo(page.items[firstdata].blk)

Locator == "locator"

\* The metapage is read under its lock, which is released before anything
\* else happens; rd_seen collects the pages the descent locks, and rd_blkno
\* is the page it is on and, once it is done, the value it returns.
LocateStart ==
    /\ rd_pc = "idle"
    /\ rd_seen' = <<>>
    /\ IF btm_root = P_NONE
       THEN rd_blkno' = P_NONE /\ rd_pc' = "done"
       ELSE rd_blkno' = btm_root /\ rd_pc' = "read"
    /\ UNCHANGED <<pages, btm_root, needswal, lock, wal, recovered, mvars,
                   rd_total, rd_keys, mt_pc, mt_blk, mt_next, xvars>>

\* ReadBufferExtended and LockBuffer(buf, BT_READ).
LocateLock ==
    /\ rd_pc = "read"
    /\ LockFree(rd_blkno)
    /\ lock' = LockBuffer(lock, rd_blkno, Locator)
    /\ rd_seen' = Append(rd_seen, rd_blkno)
    /\ rd_pc' = "locked"
    /\ UNCHANGED <<pages, btm_root, needswal, wal, recovered, mvars,
                   rd_blkno, rd_total, rd_keys, mt_pc, mt_blk, mt_next, xvars>>

\* The page is examined and, on every branch, unlocked.
LocateExamine ==
    /\ rd_pc = "locked"
    /\ LET round == ExaminePage(pages[rd_blkno], rd_blkno)
       IN /\ rd_blkno' = round.blkno
          /\ rd_pc' = IF round.ret THEN "done" ELSE "read"
    /\ lock' = UnlockReleaseBuffer(lock, rd_blkno, Locator)
    /\ UNCHANGED <<pages, btm_root, needswal, wal, recovered, mvars,
                   rd_total, rd_seen, rd_keys, mt_pc, mt_blk, mt_next, xvars>>

\* The trees the descent is run on: the root on block RootBlk, a page that
\* is an inner page or a leaf on block 2, a leaf on block 1, each sound or
\* broken in one of the ways the descent tests for.
InnerKinds == {"down", "empty", "unused", "baddownlink", "hikeyonly"}
LeafKinds == {"live", "emptyleaf", "halfdead", "deleted", "new"}

InnerPage(kind, child, level) ==
    [new |-> FALSE, flags |-> {},
     btpo_prev |-> P_NONE,
     btpo_next |-> IF kind = "hikeyonly" THEN NewBlk ELSE P_NONE,
     btpo_level |-> level, btpo_cycleid |-> 0,
     items |-> IF kind = "down" THEN <<Tuple(0, SizeOfIndexTupleData, 0, child)>>
               ELSE IF kind = "unused" THEN <<Tuple(0, 0, 0, child)>>
               ELSE IF kind = "baddownlink"
               THEN <<Tuple(0, SizeOfIndexTupleData, 0, InvalidBlockNumber)>>
               ELSE IF kind = "hikeyonly" THEN <<Tuple(9, 16, 1, 0)>>
               ELSE <<>>]

LeafPage(b, kind) ==
    IF kind = "emptyleaf" THEN [WalkPage(b, "live", P_NONE) EXCEPT !.items = <<>>]
    ELSE WalkPage(b, kind, P_NONE)

InitLocate ==
    /\ \E rootpage \in {InnerPage(k, c, 2) : k \in InnerKinds, c \in {1, 2}}
                       \cup {LeafPage(RootBlk, k) : k \in LeafKinds},
          page2 \in {InnerPage(k, 1, 1) : k \in InnerKinds}
                    \cup {LeafPage(2, k) : k \in LeafKinds},
          kind1 \in LeafKinds :
          pages = [b \in Blocks |->
                     IF b = RootBlk THEN rootpage
                     ELSE IF b = 2 THEN page2
                     ELSE IF b = 1 THEN LeafPage(1, kind1)
                     ELSE IF b \in Leaves THEN LeafPage(b, "live")
                     ELSE ZeroPage]
    /\ btm_root \in {P_NONE, RootBlk}
    /\ InitLocals
    /\ needswal

NextLocate == LocateStart \/ LocateLock \/ LocateExamine

SpecLocate == InitLocate /\ [][NextLocate]_vars

\* -------------------------------------------------------- tree maintainer

\* Another backend that changes the tree under the same convention: it locks
\* a leaf exclusively and then that leaf's right sibling, as a page split does
\* to set the sibling's left-link, and releases both.
Maint == "maint"

MaintLockPage(b) ==
    /\ mt_pc = "idle"
    /\ LiveLeaf(pages[b])
    /\ ~P_RIGHTMOST(pages[b])
    /\ LockFree(b)
    /\ lock' = LockBuffer(lock, b, Maint)
    /\ mt_blk' = b
    /\ mt_next' = pages[b].btpo_next
    /\ mt_pc' = "right"
    /\ UNCHANGED <<pages, btm_root, needswal, wal, recovered, mvars,
                   rd_pc, rd_blkno, rd_total, rd_seen, rd_keys, xvars>>

MaintLockRight ==
    /\ mt_pc = "right"
    /\ LockFree(mt_next)
    /\ lock' = LockBuffer(lock, mt_next, Maint)
    /\ mt_pc' = "both"
    /\ UNCHANGED <<pages, btm_root, needswal, wal, recovered, mvars,
                   rd_pc, rd_blkno, rd_total, rd_seen, rd_keys, mt_blk, mt_next, xvars>>

MaintRelease ==
    /\ mt_pc = "both"
    /\ lock' = UnlockReleaseBuffer(UnlockReleaseBuffer(lock, mt_next, Maint), mt_blk, Maint)
    /\ mt_pc' = "idle"
    /\ mt_blk' = P_NONE /\ mt_next' = P_NONE
    /\ UNCHANGED <<pages, btm_root, needswal, wal, recovered, mvars,
                   rd_pc, rd_blkno, rd_total, rd_seen, rd_keys, xvars>>

\* --------------------------- pg_index_reclaim_execute, pg_index_reclaim_analyze

MAX_MERGES_PER_EXECUTION == 1

\* The values of max_pct_to_merge the calls are made with.
Pcts == {0, 20, 60, 100, 101}
Fns == {"execute", "analyze"}

svars == <<pages, btm_root, needswal, lock, wal, recovered>>
rmvars == <<rd_pc, rd_blkno, rd_total, rd_seen, rd_keys, mt_pc, mt_blk, mt_next, ovars>>

\* A parameter check that forgets the upper end of the range.
ParamsValid_LowerOnly(pct) == ~(pct < 1)

\* The parameter check both functions begin with.
ParamsValid(pct) == ~(pct < 1 \/ pct > 100)

\* An index_open that takes the weakest lock for both functions.
LockMode_AccessShare(fn) == "AccessShareLock"

\* The lock mode index_open is called with.
LockMode(fn) == IF fn = "execute" THEN "ShareUpdateExclusiveLock" ELSE "AccessShareLock"

\* A limit test that is off by one.
LimitReached_OffByOne(attempted) == attempted > MAX_MERGES_PER_EXECUTION

\* The test the loop over the candidates begins with.
LimitReached(attempted) == attempted >= MAX_MERGES_PER_EXECUTION

\* An attempt on every candidate, feasible or not.
ShouldAttempt_Any(candidate) == TRUE

\* Whether the loop invokes execute_merge on a candidate.
ShouldAttempt(candidate) == candidate.can_merge

\* The function is called: the parameter check raises an error or passes.
Call(fn, pct) ==
    /\ x_pc = "idle" /\ pc = "idle"
    /\ x_fn' = fn
    /\ max_pct_to_merge' = pct
    /\ x_pc' = IF ParamsValid(pct) THEN "open" ELSE "error"
    /\ UNCHANGED <<rel_lock, merge_candidates, x_lc, merges_attempted, pages_merged,
                   space_reclaimed, x_pre, x_invoked, x_stale>>
    /\ UNCHANGED <<svars, mvars, rmvars>>

\* The lock manager's conflict table on the modes that occur here: of
\* AccessShareLock, RowExclusiveLock and ShareUpdateExclusiveLock only the
\* last conflicts, and only with itself.
Conflicts(mode1, mode2) ==
    mode1 = "ShareUpdateExclusiveLock" /\ mode2 = "ShareUpdateExclusiveLock"

\* What the other session runs, and the lock it opens the index with: one of
\* the two functions, or an insert.
OtherFns == {"execute", "analyze", "insert"}
OtherLockMode(fn) == IF fn = "insert" THEN "RowExclusiveLock" ELSE LockMode(fn)
OtherLock == IF o_pc = "open" THEN OtherLockMode(o_fn) ELSE "NoLock"

\* index_open: it waits while a conflicting lock is held.
OpenIndex ==
    /\ x_pc = "open"
    /\ ~Conflicts(LockMode(x_fn), OtherLock)
    /\ rel_lock' = LockMode(x_fn)
    /\ x_pc' = "analyze"
    /\ UNCHANGED <<x_fn, max_pct_to_merge, merge_candidates, x_lc, merges_attempted,
                   pages_merged, space_reclaimed, x_pre, x_invoked, x_stale>>
    /\ UNCHANGED <<svars, mvars, rmvars>>

\* analyze_index_pages; pg_index_reclaim_analyze returns the list as rows.
RunAnalysis ==
    /\ x_pc = "analyze"
    /\ merge_candidates' = analyze_index_pages(pages, btm_root, max_pct_to_merge)
    /\ x_pre' = pages
    /\ x_lc' = 1
    /\ x_pc' = IF x_fn = "execute" THEN "loop" ELSE "close"
    /\ UNCHANGED <<x_fn, max_pct_to_merge, rel_lock, merges_attempted, pages_merged,
                   space_reclaimed, x_invoked, x_stale>>
    /\ UNCHANGED <<svars, mvars, rmvars>>

\* One round of the loop over the candidates, up to the call of execute_merge.
ExecLoop ==
    /\ x_pc = "loop" /\ pc = "idle"
    /\ IF x_lc > Len(merge_candidates) \/ LimitReached(merges_attempted)
       THEN /\ x_pc' = "close"
            /\ UNCHANGED <<x_lc, merges_attempted, x_invoked, x_stale>>
            /\ UNCHANGED <<svars, mvars, rmvars>>
       ELSE LET candidate == merge_candidates[x_lc]
            IN IF ShouldAttempt(candidate)
               THEN /\ merges_attempted' = merges_attempted + 1
                    /\ x_invoked' = Append(x_invoked, x_lc)
                    /\ x_stale' = (pages[candidate.left_page].btpo_next
                                       # candidate.right_page)
                    /\ x_pc' = "merging"
                    /\ StartCall(candidate.left_page, candidate.right_page)
                    /\ UNCHANGED x_lc
               ELSE /\ x_lc' = x_lc + 1
                    /\ UNCHANGED <<x_pc, merges_attempted, x_invoked, x_stale>>
                    /\ UNCHANGED <<svars, mvars, rmvars>>
    /\ UNCHANGED <<x_fn, max_pct_to_merge, rel_lock, merge_candidates, pages_merged,
                   space_reclaimed, x_pre, ovars>>

\* A running total that forgets the candidate's estimate.
Reclaimed_WholeBlock(total, candidate) == total + BLCKSZ

\* space_reclaimed += (BLCKSZ - candidate->estimated_space).  The difference
\* is taken in Size, which is unsigned, and added to an int64; both wrap at
\* 2^64, so the sum is the signed one as long as it stays in the int64 range,
\* which a block size and an estimate of one page pair cannot leave.
Reclaimed(total, candidate) == total + (BLCKSZ - candidate.estimated_space)

\* execute_merge has returned to the loop.
ExecReturned ==
    /\ x_pc = "merging"
    /\ ReturnCall
    /\ pages_merged' = IF result = "true" THEN pages_merged + 1 ELSE pages_merged
    /\ space_reclaimed' = IF result = "true"
                          THEN Reclaimed(space_reclaimed, merge_candidates[x_lc])
                          ELSE space_reclaimed
    /\ x_lc' = x_lc + 1
    /\ x_pc' = "loop"
    /\ UNCHANGED <<x_fn, max_pct_to_merge, rel_lock, merge_candidates, merges_attempted,
                   x_pre, x_invoked, x_stale, ovars>>

\* The result row is stored and the index is closed.
CloseIndex ==
    /\ x_pc = "close"
    /\ rel_lock' = "NoLock"
    /\ x_pc' = "done"
    /\ UNCHANGED <<x_fn, max_pct_to_merge, merge_candidates, x_lc, merges_attempted,
                   pages_merged, space_reclaimed, x_pre, x_invoked, x_stale>>
    /\ UNCHANGED <<svars, mvars, rmvars>>

\* The function has returned, or its error has ended the statement.
CallReturn ==
    /\ x_pc \in {"done", "error"}
    /\ x_pc' = "idle" /\ x_fn' = "none"
    /\ max_pct_to_merge' = 0
    /\ rel_lock' = "NoLock"
    /\ merge_candidates' = <<>> /\ x_lc' = 0
    /\ merges_attempted' = 0 /\ pages_merged' = 0 /\ space_reclaimed' = 0
    /\ x_pre' = <<>>
    /\ x_invoked' = <<>> /\ x_stale' = FALSE
    /\ UNCHANGED <<svars, mvars, rmvars>>

\* Another backend splits a leaf after the analysis has read it and before
\* execute_merge is called: the upper half of its items moves to a new page
\* that is linked in to its right.
SplitPage(b) ==
    /\ x_pc = "loop" /\ pc = "idle"
    /\ LiveLeaf(pages[b])
    /\ Len(DataItems(pages[b])) >= 2
    /\ PageIsNew(pages[NewBlk])
    /\ LockFree(b) /\ LockFree(NewBlk)
    /\ LET page == pages[b]
           items == DataItems(page)
           k == Len(items) \div 2
           newhk == [items[k + 1] EXCEPT !.len = 16]
           oldhk == IF P_RIGHTMOST(page) THEN <<>> ELSE <<page.items[P_HIKEY]>>
           rsib == page.btpo_next
           p1 == [pages EXCEPT
                    ![b] = [page EXCEPT !.items = <<newhk>> \o SubSeq(items, 1, k),
                                        !.btpo_next = NewBlk],
                    ![NewBlk] = [new |-> FALSE, flags |-> {"BTP_LEAF"},
                                 btpo_prev |-> b, btpo_next |-> rsib,
                                 btpo_level |-> 0, btpo_cycleid |-> 0,
                                 items |-> oldhk \o SubSeq(items, k + 1, Len(items))]]
       IN /\ rsib # P_NONE => LockFree(rsib)
          /\ pages' = IF rsib # P_NONE THEN [p1 EXCEPT ![rsib].btpo_prev = NewBlk] ELSE p1
    /\ UNCHANGED <<btm_root, needswal, lock, wal, recovered, mvars, rmvars, xvars>>

\* The index the SQL functions are called on: up to ExecMaxItems items on a
\* leaf, so that leaves on which nothing more fits are among them.
ExecMaxItems == MaxItems + 2
ExecStride == ExecMaxItems + 1

InitLeafExec(b, n) ==
    [new |-> FALSE, flags |-> {"BTP_LEAF"},
     btpo_prev |-> IF b = 1 THEN P_NONE ELSE b - 1,
     btpo_next |-> IF b = NLeaf THEN P_NONE ELSE b + 1,
     btpo_level |-> 0,
     btpo_cycleid |-> 0,
     items |-> (IF b = NLeaf THEN <<>> ELSE <<Tuple(b * ExecStride, 16, 1, 0)>>)
               \o [i \in 1 .. n |-> Tuple((b - 1) * ExecStride + i, 16, 1, 0)]]

InitExec ==
    /\ \E n \in [Leaves -> 0 .. ExecMaxItems] :
          /\ pages = [b \in Blocks |->
                        IF b \in Leaves THEN InitLeafExec(b, n[b])
                        ELSE IF b = RootBlk THEN InitRoot ELSE ZeroPage]
          /\ \A b \in Leaves : PageFits(pages[b])
    /\ InitRest
    /\ needswal

\* The other session asks for the index, gets it when no conflicting lock
\* is held, and closes it.
OtherCall(fn) ==
    /\ o_pc = "idle"
    /\ o_pc' = "want" /\ o_fn' = fn
    /\ UNCHANGED <<x_pc, x_fn, max_pct_to_merge, rel_lock, merge_candidates, x_lc,
                   merges_attempted, pages_merged, space_reclaimed, x_pre, x_invoked,
                   x_stale>>
    /\ UNCHANGED <<svars, mvars, rd_pc, rd_blkno, rd_total, rd_seen, rd_keys,
                   mt_pc, mt_blk, mt_next>>

OtherOpen ==
    /\ o_pc = "want"
    /\ ~Conflicts(OtherLockMode(o_fn), rel_lock)
    /\ o_pc' = "open"
    /\ UNCHANGED o_fn
    /\ UNCHANGED <<x_pc, x_fn, max_pct_to_merge, rel_lock, merge_candidates, x_lc,
                   merges_attempted, pages_merged, space_reclaimed, x_pre, x_invoked,
                   x_stale>>
    /\ UNCHANGED <<svars, mvars, rd_pc, rd_blkno, rd_total, rd_seen, rd_keys,
                   mt_pc, mt_blk, mt_next>>

OtherClose ==
    /\ o_pc = "open"
    /\ o_pc' = "idle" /\ o_fn' = "none"
    /\ UNCHANGED <<x_pc, x_fn, max_pct_to_merge, rel_lock, merge_candidates, x_lc,
                   merges_attempted, pages_merged, space_reclaimed, x_pre, x_invoked,
                   x_stale>>
    /\ UNCHANGED <<svars, mvars, rd_pc, rd_blkno, rd_total, rd_seen, rd_keys,
                   mt_pc, mt_blk, mt_next>>

\* The other session's insert splits a leaf.
OtherSplit(b) == o_pc = "open" /\ o_fn = "insert" /\ SplitPage(b)

\* Another backend inserts an entry into a leaf after the analysis has read
\* it and before execute_merge is called: inserts take RowExclusiveLock, which
\* the lock of Execute lets through.  The entry goes behind the leaf's last
\* one, below its high key.  One insert is let into the window of a call.
InsertTuple(b) ==
    /\ x_pc = "loop" /\ pc = "idle"
    /\ pages = x_pre
    /\ LiveLeaf(pages[b])
    /\ Len(DataItems(pages[b])) < MaxItems
    /\ LockFree(b)
    /\ LET page == pages[b]
           key == (b - 1) * ExecStride + Len(DataItems(page)) + 1
           added == [page EXCEPT !.items = Append(page.items, Tuple(key, 16, 1, 0))]
       IN /\ PageFits(added)
          /\ pages' = [pages EXCEPT ![b] = added]
    /\ UNCHANGED <<btm_root, needswal, lock, wal, recovered, mvars, rmvars, xvars>>

\* Execute on an index of leaves with at most one entry, with inserts going on.
InsertPcts == {20, 100}

InitInsert ==
    /\ \E n \in [Leaves -> 0 .. 1] :
          pages = [b \in Blocks |->
                     IF b \in Leaves THEN InitLeafExec(b, n[b])
                     ELSE IF b = RootBlk THEN InitRoot ELSE ZeroPage]
    /\ InitRest
    /\ needswal

NextInsert ==
    \/ \E pct \in InsertPcts : Call("execute", pct)
    \/ OpenIndex
    \/ RunAnalysis
    \/ ExecLoop
    \/ MergeBody
    \/ ExecReturned
    \/ CloseIndex
    \/ CallReturn
    \/ \E b \in Leaves : InsertTuple(b)

SpecInsert == InitInsert /\ [][NextInsert]_vars

NextExec ==
    \/ \E fn \in Fns, pct \in Pcts : Call(fn, pct)
    \/ OpenIndex
    \/ RunAnalysis
    \/ ExecLoop
    \/ MergeBody
    \/ ExecReturned
    \/ CloseIndex
    \/ CallReturn
    \/ \E b \in Blocks : SplitPage(b)

SpecExec == InitExec /\ [][NextExec]_vars

\* The two functions called in one session while another session runs a
\* function or inserts on the same index, whose leaves hold one item each.
InitRel ==
    /\ InitExec
    /\ \A b \in Leaves : Len(DataItems(pages[b])) = 1

NextRel ==
    \/ \E fn \in Fns, pct \in Pcts : Call(fn, pct)
    \/ OpenIndex
    \/ RunAnalysis
    \/ ExecLoop
    \/ MergeBody
    \/ ExecReturned
    \/ CloseIndex
    \/ CallReturn
    \/ \E fn \in OtherFns : OtherCall(fn)
    \/ OtherOpen
    \/ OtherClose
    \/ \E b \in Blocks : OtherSplit(b)

SpecRel == InitRel /\ [][NextRel]_vars

\* pg_index_reclaim_analyze on an index of which one leaf that is not the
\* rightmost may be half-dead with its left neighbor still pointing at it.
InitAnalyze ==
    /\ \E n \in [Leaves -> 0 .. ExecMaxItems], d \in {P_NONE} \cup (Leaves \ {NLeaf}) :
          /\ \A b \in Leaves : PageFits(InitLeafExec(b, n[b]))
          /\ d # P_NONE => n[d] = 0
          /\ pages = [b \in Blocks |->
                        IF b = d THEN MarkHalfDead(InitLeafExec(b, n[b]))
                        ELSE IF b \in Leaves THEN InitLeafExec(b, n[b])
                        ELSE IF b = RootBlk THEN InitRoot ELSE ZeroPage]
    /\ InitRest
    /\ needswal

NextAnalyze ==
    \/ \E pct \in Pcts : Call("analyze", pct)
    \/ OpenIndex
    \/ RunAnalysis
    \/ CloseIndex
    \/ CallReturn

SpecAnalyze == InitAnalyze /\ [][NextAnalyze]_vars

\* The merge running beside a leaf scan and a tree maintainer, from an index
\* whose leaves hold one item each.
InitConc ==
    /\ Init
    /\ ~needswal
    /\ \A b \in Leaves : /\ Len(DataItems(pages[b])) = 1
                         /\ \A i \in 1 .. Len(pages[b].items) : pages[b].items[i].len = 16

\* Here a candidate is a live leaf and the right sibling its btpo_next names,
\* as the analysis reads them just before the call.
NextConc ==
    \/ \E l \in Leaves :
          LiveLeaf(pages[l]) /\ ~P_RIGHTMOST(pages[l]) /\ Start(l, pages[l].btpo_next)
    \/ MergeSteps
    \/ ScanStart
    \/ ScanPage
    \/ \E b \in Leaves : MaintLockPage(b)
    \/ MaintLockRight
    \/ MaintRelease

SpecConc == InitConc /\ [][NextConc]_vars

\* ------------------------------------------------ execute_merge and VACUUM

\* Other backends that change pages while a merge is between any two of its
\* steps.  Each holds the exclusive lock on every page it changes, so a step
\* of theirs needs those pages' locks to be free.

\* VACUUM removes the entries of a leaf and, still holding its lock, begins
\* the deletion of the emptied page unless it is the rightmost: the page
\* becomes half-dead, its sibling links kept.
VacuumPage(b) ==
    /\ LiveLeaf(pages[b])
    /\ Len(DataItems(pages[b])) > 0
    /\ LockFree(b)
    /\ LET page == pages[b]
           emptied == PageIndexMultiDelete(page, P_FIRSTDATAKEY(page)
                                                  .. PageGetMaxOffsetNumber(page))
       IN pages' = [pages EXCEPT ![b] =
                      IF P_RIGHTMOST(page) THEN emptied
                      ELSE [PageIndexTupleOverwrite(emptied, P_HIKEY, trunctuple)
                               EXCEPT !.flags = @ \cup {"BTP_HALF_DEAD"}]]
    /\ UNCHANGED <<btm_root, needswal, lock, wal, recovered, mvars, evars>>

\* VACUUM's second stage: a half-dead leaf is unlinked from the siblings that
\* still point at it and becomes deleted.
VacuumUnlink(b) ==
    /\ ~PageIsNew(pages[b])
    /\ P_ISHALFDEAD(pages[b]) /\ ~P_ISDELETED(pages[b])
    /\ LockFree(b)
    /\ LET prev == pages[b].btpo_prev
           next == pages[b].btpo_next
           p1 == [pages EXCEPT ![b].flags = (@ \ {"BTP_HALF_DEAD"}) \cup {"BTP_DELETED"}]
           p2 == IF prev # P_NONE /\ pages[prev].btpo_next = b
                 THEN [p1 EXCEPT ![prev].btpo_next = next] ELSE p1
           p3 == IF next # P_NONE /\ pages[next].btpo_prev = b
                 THEN [p2 EXCEPT ![next].btpo_prev = prev] ELSE p2
       IN /\ prev # P_NONE => LockFree(prev)
          /\ next # P_NONE => LockFree(next)
          /\ pages' = p3
    /\ UNCHANGED <<btm_root, needswal, lock, wal, recovered, mvars, evars>>

\* A candidate is a pair the analysis once read as a leaf and its right
\* sibling: without splits the right one is further along the chain.
NextVacuum ==
    \/ \E l \in Leaves, r \in Leaves : l < r /\ Start(l, r)
    \/ MergeSteps
    \/ \E b \in Leaves : VacuumPage(b)
    \/ \E b \in Leaves : VacuumUnlink(b)

SpecVacuum == InitConc /\ [][NextVacuum]_vars

\* ------------------------------------------------------------------ claims

Merged == pc = "done" /\ result = "true"
Aborted == pc = "done" /\ result = "false"

RECURSIVE SumOver(_, _)
SumOver(S, pgs) ==
    IF S = {} THEN 0
    ELSE LET b == CHOOSE x \in S : TRUE
         IN Len(DataItems(pgs[b])) + SumOver(S \ {b}, pgs)

TotalLive(pgs) == SumOver({b \in Blocks : LiveLeaf(pgs[b])}, pgs)

\* C1: a successful merge conserves the entries: the number of live entries
\* on the non-half-dead leaves is what it was before the call, and every data
\* item of the left page is on the right page afterwards.
C1_EntryConservation ==
    Merged =>
        /\ TotalLive(pages) = TotalLive(pre)
        /\ ItemSet(DataItems(pre[left_block])) \subseteq ItemSet(pages[right_block].items)

\* C5: when the space check has passed and the merge went on, every item of
\* the left page was added to the right page, and the right page's line
\* pointers and tuples lie within the page.
C5_CapacitySafety ==
    Merged =>
        /\ items_added = nleft_items
        /\ PageFits(pages[right_block])

\* C6: after a successful merge the right page's entries are the left page's
\* data items, in their order, followed by the right page's own, in their order.
C6_LeftThenRight ==
    Merged =>
        DataItems(pages[right_block])
            = DataItems(pre[left_block]) \o DataItems(pre[right_block])

\* C9: after a successful merge the left page has no live entry, is half-dead,
\* holds exactly a placeholder high key of zero attributes that names no
\* parent, has its cycle id cleared, and is not marked deleted.
C9_LeftHalfDead ==
    Merged =>
        LET page == pages[left_block]
        IN /\ DataItems(page) = <<>>
           /\ P_ISHALFDEAD(page)
           /\ Len(page.items) = 1
           /\ page.items[P_HIKEY].natts = 0
           /\ page.items[P_HIKEY].len = SizeOfIndexTupleData
           /\ page.items[P_HIKEY].blk = InvalidBlockNumber
           /\ page.btpo_cycleid = 0
           /\ ~P_ISDELETED(page)

C9_Witness ==
    /\ Merged
    /\ pre[left_block].btpo_cycleid # 0
    /\ Len(DataItems(pre[left_block])) = MaxItems
    /\ pre[left_block].items[P_HIKEY].natts = 1

\* C10: when execute_merge has returned false, no page is changed, no image
\* was logged, and the call holds no page lock.
C10_CleanAbort ==
    Aborted =>
        /\ pages = pre
        /\ wal = <<>>
        /\ \A b \in Blocks : Self \notin lock[b]

C10_Witness ==
    /\ Aborted
    /\ left_sibling_buf # InvalidBuffer
    /\ right_sibling_buf # InvalidBuffer
    /\ ~HasSpace(pages[left_block], pages[right_block])

\* The pages a walk along btpo_next visits from blkno on, in order; n bounds
\* its length.
RECURSIVE Walk(_, _, _)
Walk(pgs, blkno, n) ==
    IF blkno = P_NONE \/ n = 0 THEN <<>>
    ELSE <<blkno>> \o Walk(pgs, pgs[blkno].btpo_next, n - 1)

\* The leaf level as the Leaf Locator and the sibling links give it.
LeafWalk(pgs) == Walk(pgs, find_leftmost_leaf(pgs, btm_root), NewBlk)

SeqSet(q) == {q[i] : i \in 1 .. Len(q)}
Filter(q, S) ==
    LET RECURSIVE F(_)
        F(i) == IF i > Len(q) THEN <<>>
                ELSE (IF q[i] \in S THEN <<q[i]>> ELSE <<>>) \o F(i + 1)
    IN F(1)

Quiescent == pc \in {"idle", "done"}

\* Whether the pages of q, in this order, are linked to each other in both
\* directions and end at P_NONE on both sides.
DoublyLinked(pgs, q) ==
    /\ q # <<>> => pgs[q[1]].btpo_prev = P_NONE /\ pgs[q[Len(q)]].btpo_next = P_NONE
    /\ \A i \in 1 .. Len(q) - 1 :
          pgs[q[i]].btpo_next = q[i + 1] /\ pgs[q[i + 1]].btpo_prev = q[i]

\* Whether the keys of the pages of q grow along q.
InKeyOrder(pgs, q) ==
    \A i \in 1 .. Len(q), j \in 1 .. Len(q) :
        i < j => \A x \in ItemSet(DataItems(pgs[q[i]])), y \in ItemSet(DataItems(pgs[q[j]])) :
                    x.key < y.key

\* C3: after any sequence of merges, from every page the walk from the
\* leftmost leaf reaches, next_sibling and then prev_sibling lead back to the
\* page, and the live leaves form one ordered chain with no gaps.
C3_SiblingChainIntegrity ==
    Quiescent =>
        /\ \A b \in SeqSet(LeafWalk(pages)) :
              pages[b].btpo_next # P_NONE => pages[pages[b].btpo_next].btpo_prev = b
        /\ LET live == Filter(LeafWalk(pages), {b \in Blocks : LiveLeaf(pages[b])})
           IN /\ SeqSet(live) = {b \in Blocks : LiveLeaf(pages[b])}
              /\ DoublyLinked(pages, live)
              /\ InKeyOrder(pages, live)

\* C4: after a successful merge the sibling chain is one doubly linked
\* sequence, in key order, that covers every leaf not marked deleted.
C4_ChainCoversNonDeleted ==
    Merged =>
        LET chain == LeafWalk(pages)
        IN /\ SeqSet(chain) = {b \in Blocks : ~PageIsNew(pages[b]) /\ P_ISLEAF(pages[b])
                                              /\ ~P_ISDELETED(pages[b])}
           /\ DoublyLinked(pages, chain)
           /\ InKeyOrder(pages, chain)

\* The pages a merge changes: the two pages and the left page's left sibling.
MergeSet == {left_block, right_block} \cup (IF leftsib = P_NONE THEN {} ELSE {leftsib})

\* C2: whatever part of the log was durable at a crash, recovery leaves the
\* left page, the right page and the left neighbor either all as they were
\* before the merge or all as the merge left them.
C2_CrashAtomic ==
    pc = "crashed" =>
        \/ \A b \in MergeSet : recovered[b] = pre[b]
        \/ \A b \in MergeSet : recovered[b] = pages[b]

Count(q, x) == Cardinality({i \in 1 .. Len(q) : q[i] = x})

LiveKeys(pgs) ==
    UNION {{it.key : it \in ItemSet(DataItems(pgs[b]))} : b \in {x \in Blocks : LiveLeaf(pgs[x])}}

\* C7: a scan of the leaf level that a merge interleaves with returns every
\* entry that was live from its start to its end exactly once.
C7_ScanExactlyOnce ==
    rd_pc = "done" =>
        \A k \in rd_keys \cap LiveKeys(pages) : Count(rd_seen, k) = 1

\* The page whose lock each process waits for, P_NONE when it waits for none.
MergeWaitsFor ==
    CASE pc = "lock_left" -> left_block
      [] pc = "lock_right" -> right_block
      [] pc = "lock_rsib" /\ ~is_rightmost -> rightsib
      [] pc = "lock_lsib" /\ leftsib # P_NONE -> leftsib
      [] OTHER -> P_NONE

MaintWaitsFor == IF mt_pc = "right" THEN mt_next ELSE P_NONE

\* C8: the merge and a maintainer that locks left to right never each wait
\* for a page lock the other holds.
C8_NoDeadlock ==
    ~(/\ MergeWaitsFor # P_NONE
      /\ Maint \in lock[MergeWaitsFor]
      /\ MaintWaitsFor # P_NONE
      /\ Self \in lock[MaintWaitsFor])

\* The blocks of the events of one kind, in the order they happened.
BlocksOf(q, kind) ==
    LET RECURSIVE F(_)
        F(i) == IF i > Len(q) THEN <<>>
                ELSE (IF q[i][1] = kind THEN <<q[i][2]>> ELSE <<>>) \o F(i + 1)
    IN F(1)

\* The positions of an event in the log.
PosOf(q, e) == {i \in 1 .. Len(q) : q[i] = e}

IsPrefix(a, b) == Len(a) <= Len(b) /\ SubSeq(b, 1, Len(a)) = a

\* The merge has left its critical section and has not yet returned.
Succeeded == pc = "release" \/ Merged

\* C14: after a successful merge of an index that needs WAL, the pages that
\* got a full-page image are exactly the pages the merge changed: the left
\* page, the right page, and the left sibling when there is one; each got one
\* image, which holds its final content and was logged inside the critical
\* section after the page's writes; the right sibling got none.  Without WAL
\* nothing is logged.
C14_LoggedEqualsMutated ==
    Succeeded =>
        LET mutated == {b \in Blocks : pages[b] # pre[b]}
            logged == {wal[i].blk : i \in 1 .. Len(wal)}
        IN /\ mutated = {left_block, right_block}
                           \cup (IF pre[left_block].btpo_prev # P_NONE
                                 THEN {pre[left_block].btpo_prev} ELSE {})
           /\ ~needswal => wal = <<>> /\ BlocksOf(ev, "xlog") = <<>>
           /\ needswal =>
                 /\ logged = mutated
                 /\ Len(wal) = Cardinality(mutated)
                 /\ pre[right_block].btpo_next \notin logged
                 /\ \A i \in 1 .. Len(wal) : wal[i].image = pages[wal[i].blk]
                 /\ \A b \in mutated :
                       /\ Cardinality(PosOf(ev, Ev("xlog", b))) = 1
                       /\ \A i \in PosOf(ev, Ev("xlog", b)) :
                             /\ \A j \in PosOf(ev, Ev("write", b)) : j < i
                             /\ \A j \in PosOf(ev, Ev("START_CRIT_SECTION", 0)) : j < i
                             /\ \A j \in PosOf(ev, Ev("END_CRIT_SECTION", 0)) : i < j

C14_Witness ==
    /\ Merged
    /\ needswal
    /\ left_sibling_buf # InvalidBuffer
    /\ right_sibling_buf # InvalidBuffer
    /\ Len(wal) = 3

\* The order the claim gives for the locks of a call: left page, right page,
\* the right page's next sibling if it has one, the left page's prev sibling
\* if it has one.
LockOrder ==
    <<left_block, right_block>>
    \o (IF pre[right_block].btpo_next # P_NONE THEN <<pre[right_block].btpo_next>> ELSE <<>>)
    \o (IF pre[left_block].btpo_prev # P_NONE THEN <<pre[left_block].btpo_prev>> ELSE <<>>)

\* The order the claim gives for the release after a success.
UnlockOrder ==
    (IF pre[left_block].btpo_prev # P_NONE THEN <<pre[left_block].btpo_prev>> ELSE <<>>)
    \o (IF pre[right_block].btpo_next # P_NONE THEN <<pre[right_block].btpo_next>> ELSE <<>>)
    \o <<right_block, left_block>>

\* C20: in every call the locks are taken in the order left page, right page,
\* right sibling, left sibling; each page is validated right after it is
\* locked; no allocation and no page write comes before the last lock; and
\* after a success the locks are released after the critical section has
\* ended, in the order left sibling, right sibling, right page, left page.
C20_LockProtocolOrder ==
    pc # "idle" =>
        /\ IsPrefix(BlocksOf(ev, "lock"), LockOrder)
        /\ \A i \in 1 .. Len(ev) :
              ev[i][1] = "lock" =>
                 /\ i < Len(ev) /\ ev[i + 1] = Ev("validate", ev[i][2])
                 /\ \A j \in 1 .. Len(ev) :
                       ev[j][1] \in {"palloc", "write", "START_CRIT_SECTION"} => i < j
        /\ Succeeded => BlocksOf(ev, "lock") = LockOrder
        /\ Merged =>
              /\ BlocksOf(ev, "unlock") = UnlockOrder
              /\ \A i \in 1 .. Len(ev), j \in PosOf(ev, Ev("END_CRIT_SECTION", 0)) :
                    ev[i][1] = "unlock" => j < i

C20_Witness ==
    /\ Merged
    /\ Len(BlocksOf(ev, "lock")) = 4
    /\ Len(BlocksOf(ev, "unlock")) = 4

\* C11: when the left page's right-link no longer names the candidate's right
\* page as execute_merge is called, the merge never enters its critical
\* section and returns false, the two pages stay as they were, and Execute
\* reports pages_merged = 0.
C11_StaleCandidateAborts ==
    /\ (x_pc = "merging" /\ x_stale) =>
          /\ pc \notin {"crit", "release"}
          /\ pc = "done" => result = "false"
          /\ pages[left_block] = pre[left_block]
          /\ pages[right_block] = pre[right_block]
    /\ (x_pc \in {"loop", "close", "done"} /\ x_stale) => pages_merged = 0

C11_Witness ==
    /\ x_pc = "merging" /\ x_stale
    /\ Aborted
    /\ LiveLeaf(pages[left_block]) /\ LiveLeaf(pages[right_block])
    /\ pages[left_block].btpo_next = NewBlk

\* The analysis of the running call has been made.
Analyzed == x_pc \in {"loop", "merging", "close", "done"}

\* The pages that have become half-dead since the analysis of the call.
NewHalfDead ==
    {b \in Blocks : P_ISHALFDEAD(pages[b]) /\ ~P_ISHALFDEAD(x_pre[b])}

Feasible == {i \in 1 .. Len(merge_candidates) : merge_candidates[i].can_merge}

\* C12: one Execute call merges at most once, however many feasible candidates
\* there are: pages_merged is 0 or 1, at most one page has become half-dead,
\* and when the call ends the two numbers agree.
C12_AtMostOneMerge ==
    (Analyzed /\ x_fn = "execute") =>
        /\ pages_merged \in {0, 1}
        /\ Cardinality(NewHalfDead) <= 1
        /\ x_pc \in {"close", "done"} => Cardinality(NewHalfDead) = pages_merged

C12_Witness ==
    /\ x_pc = "done" /\ x_fn = "execute"
    /\ pages_merged = 1
    /\ Cardinality(Feasible) >= 2

\* C13: in one Execute call execute_merge is invoked at most once, and only on
\* the first candidate of the list that is feasible; infeasible candidates
\* are passed over; when the loop has ended it was invoked exactly if some
\* candidate was feasible, whether or not the invocation succeeded.
C13_FirstFeasibleOnly ==
    (Analyzed /\ x_fn = "execute") =>
        /\ Len(x_invoked) <= 1
        /\ \A k \in 1 .. Len(x_invoked) :
              /\ x_invoked[k] \in Feasible
              /\ \A j \in Feasible : x_invoked[k] <= j
        /\ x_pc \in {"close", "done"} => (x_invoked = <<>> <=> Feasible = {})

C13_Witness ==
    /\ x_pc = "done" /\ x_fn = "execute"
    /\ x_invoked = <<2>>
    /\ pages_merged = 0
    /\ \E j \in Feasible : j > 2

\* Whether the list holds the pair.
Emitted(l, r) ==
    \E i \in 1 .. Len(merge_candidates) :
        merge_candidates[i].left_page = l /\ merge_candidates[i].right_page = r

\* Whether a page's usage, its aligned data bytes over the usable bytes of a
\* page in percent, is strictly greater than max_pct_to_merge.
AbovePct(page) ==
    SumAligned(DataItems(page)) * 100
        > max_pct_to_merge * (BLCKSZ - SizeOfPageHeaderData - SizeOfBTPageOpaqueData)

\* The pairs of live leaves the walk passed of which the second is the
\* first's right sibling, as the analysis saw them.
AdjacentLive ==
    {lr \in SeqSet(LeafWalk(x_pre)) \X SeqSet(LeafWalk(x_pre)) :
        /\ LiveLeaf(x_pre[lr[1]]) /\ LiveLeaf(x_pre[lr[2]])
        /\ x_pre[lr[1]].btpo_next = lr[2]}

FullyUtilized(page) ==
    LiveLeaf(page) /\ ~PageAddItemFits(page, Tuple(0, MAXALIGN(1), 1, 0))

\* The leaf pages of the index as the analysis saw it.
LeafBlocks == {b \in Blocks : ~PageIsNew(x_pre[b]) /\ P_ISLEAF(x_pre[b])}

OnlyDeadOrFull ==
    \A b \in LeafBlocks :
        P_ISHALFDEAD(x_pre[b]) \/ P_ISDELETED(x_pre[b]) \/ FullyUtilized(x_pre[b])

\* The blocks the candidates on the list name, as left or as right page.
Proposed ==
    {merge_candidates[i].left_page : i \in 1 .. Len(merge_candidates)}
        \union {merge_candidates[i].right_page : i \in 1 .. Len(merge_candidates)}

\* C16: for every accepted max_pct_to_merge, an analysis of an index whose
\* leaves are each half-dead, deleted or fully utilized yields an empty
\* candidate list, and no analysis proposes a half-dead page.
C16_NoCandidatesWhenFull ==
    (Analyzed /\ x_fn = "analyze") =>
        /\ OnlyDeadOrFull => merge_candidates = <<>>
        /\ \A b \in Proposed : ~P_ISHALFDEAD(x_pre[b])

\* The second half of C16 alone: no half-dead page is proposed.
C16_NoHalfDeadProposed ==
    (Analyzed /\ x_fn = "analyze") =>
        \A b \in Proposed : ~P_ISHALFDEAD(x_pre[b]) /\ ~P_ISDELETED(x_pre[b])

C16_HalfDeadSeen ==
    /\ Analyzed /\ x_fn = "analyze" /\ OnlyDeadOrFull
    /\ \E b \in LeafBlocks : P_ISHALFDEAD(x_pre[b])

\* A call whose max_pct_to_merge is outside 1 .. 100 is in progress.
BadPctCall == x_pc # "idle" /\ max_pct_to_merge \notin 1 .. 100

\* C17: a call of either function with max_pct_to_merge outside 1 .. 100 ends
\* in the error, with the index never opened, no relation lock and no page
\* lock taken, no analysis run and no merge begun; the step that raises the
\* error changes no page, lock or WAL record; a call with a percentage inside
\* the range is not rejected.
C17_BadPctRejectedEarly ==
    /\ [](BadPctCall =>
             /\ x_pc = "error"
             /\ rel_lock = "NoLock"
             /\ \A b \in Blocks : LockFree(b)
             /\ pc = "idle"
             /\ merge_candidates = <<>> /\ merges_attempted = 0)
    /\ [](x_pc = "error" => BadPctCall)
    /\ [][x_pc' = "error" =>
             UNCHANGED <<pages, btm_root, lock, wal, rel_lock, merge_candidates>>]_vars

C17_Witness ==
    /\ x_pc = "error" /\ x_fn = "execute" /\ max_pct_to_merge = 101
    /\ \E b \in Leaves : P_ISHALFDEAD(pages[b])

C17_WitnessAnalyzeZero == x_pc = "error" /\ x_fn = "analyze" /\ max_pct_to_merge = 0

\* The step is a page split by another backend: the new page comes into use.
SplitStep == PageIsNew(pages[NewBlk]) /\ ~PageIsNew(pages'[NewBlk])

\* The blocks whose page differs between two page arrays.
Changed(pgs1, pgs2) == {b \in Blocks : pgs1[b] # pgs2[b]}

\* C18: no step of an Analyze call, and no step of the analysis inside an
\* Execute call, changes a page; a step of this backend that changes a page
\* is the critical section of execute_merge, and every page it changes is
\* one the merge holds the exclusive lock on before and after the step.
C18_OnlyExecutorWritesUnderLock ==
    [][/\ (x_fn = "analyze" \/ x_pc \in {"open", "analyze"}) => pages' = pages
       /\ (pages' # pages /\ ~SplitStep) =>
             /\ pc = "crit" /\ x_pc = "merging"
             /\ \A b \in Changed(pages, pages') :
                   Self \in lock[b] /\ Self \in lock'[b]]_vars

C18_Witness ==
    /\ x_pc = "merging" /\ pc = "release"
    /\ left_sibling_buf # InvalidBuffer
    /\ Changed(pre, pages) = {left_sibling_buf, left_block, right_block}
    /\ \A b \in Changed(pre, pages) : lock[b] = {Self}

C18_WitnessAnalyze ==
    /\ x_fn = "analyze" /\ x_pc = "done" /\ merge_candidates # <<>>
    /\ \E b \in Leaves : P_ISHALFDEAD(pages[b])

Dead(page) == P_ISHALFDEAD(page) \/ P_ISDELETED(page)

\* C19: with other backends changing pages between any two steps of a merge,
\* both pages of the merge are live leaves, neither deleted nor half-dead,
\* whenever its critical section is about to run; and no step adds an item
\* to a half-dead or deleted page, revives it, or runs a critical section
\* with it as left or right page.
C19_NoDeadParticipant ==
    /\ [](pc = "crit" =>
             LiveLeaf(pages[left_block]) /\ LiveLeaf(pages[right_block]))
    /\ [][\A b \in Blocks :
             (~PageIsNew(pages[b]) /\ Dead(pages[b])) =>
                 /\ Len(pages'[b].items) <= Len(pages[b].items)
                 /\ Dead(pages'[b])
                 /\ (pc = "crit" /\ pc' = "release") => b \notin {left_block, right_block}]_vars

\* A critical section has run while another backend changed a page during
\* the call, with a deleted page and a second half-dead page in the index.
C19_Witness ==
    /\ pc = "release"
    /\ Changed(pre, pages) \ {left_block, right_block, left_sibling_buf} # {}
    /\ \E b \in Leaves : P_ISDELETED(pages[b])
    /\ \E b \in Leaves \ {left_block} : P_ISHALFDEAD(pages[b])

\* A call aborts on a page that became half-dead after the call had begun.
C19_WitnessAbort ==
    /\ Aborted
    /\ LiveLeaf(pre[right_block]) /\ P_ISHALFDEAD(pages[right_block])
    /\ pre[right_block].btpo_prev = left_block /\ LiveLeaf(pre[left_block])

\* This session's Execute holds the index open.
ExecuteOpen == x_fn = "execute" /\ x_pc \in {"analyze", "loop", "merging", "close"}

\* C21: from index_open to index_close an Execute holds
\* ShareUpdateExclusiveLock, so no other session has the index open for an
\* Execute at the same time; a session that wants the index for an Analyze
\* or an insert is not made to wait by a running Execute, and an Analyze is
\* not made to wait by another session's Execute.
C21_ExecuteExcludesExecute ==
    /\ ExecuteOpen => rel_lock = "ShareUpdateExclusiveLock"
    /\ ~(ExecuteOpen /\ o_pc = "open" /\ o_fn = "execute")
    /\ (ExecuteOpen /\ o_pc = "want" /\ o_fn \in {"analyze", "insert"}) =>
          ~Conflicts(OtherLockMode(o_fn), rel_lock)
    /\ (x_pc = "open" /\ x_fn = "analyze") => ~Conflicts(LockMode(x_fn), OtherLock)

\* A merge is in its critical section while the other session has the
\* index open for an insert that has split a page, the candidate being stale
\* or not.
C21_Witness ==
    /\ ExecuteOpen /\ pc = "crit"
    /\ o_pc = "open" /\ o_fn = "insert"
    /\ ~PageIsNew(pages[NewBlk])

C21_WitnessAnalyze == ExecuteOpen /\ pc = "crit" /\ o_pc = "open" /\ o_fn = "analyze"

C21_WitnessWaits ==
    /\ ExecuteOpen /\ o_pc = "want" /\ o_fn = "execute"
    /\ Conflicts(OtherLockMode(o_fn), rel_lock)

C21_WitnessOtherFirst ==
    /\ x_pc = "open" /\ x_fn = "execute" /\ o_pc = "open" /\ o_fn = "execute"

\* The keys are in non-decreasing order.
Sorted(keys) == \A i \in 1 .. Len(keys), j \in 1 .. Len(keys) : i < j => keys[i] <= keys[j]

\* The leaf-page ordering invariant: data items in key order, none greater
\* than the high key of a page that has one.
LeafOrdered(page) ==
    /\ Sorted(Keys(DataItems(page)))
    /\ ~P_RIGHTMOST(page) =>
          \A it \in ItemSet(DataItems(page)) : it.key <= page.items[P_HIKEY].key

\* Both pages are sorted and no key of the first is greater than a key of
\* the second.
SortedPair(left_page, right_page) ==
    /\ LeafOrdered(left_page) /\ LeafOrdered(right_page)
    /\ \A x \in ItemSet(DataItems(left_page)), y \in ItemSet(DataItems(right_page)) :
          x.key <= y.key

\* C22: after a successful merge of two sorted pages of which the left one's
\* keys are no greater than the right one's, the right page's data items are
\* in non-decreasing key order, none is greater than its high key, and the
\* high key is the one it had.
C22_RightPageOrdered ==
    (Merged /\ SortedPair(pre[left_block], pre[right_block])) =>
        /\ LeafOrdered(pages[right_block])
        /\ ~P_RIGHTMOST(pre[right_block]) =>
              pages[right_block].items[P_HIKEY] = pre[right_block].items[P_HIKEY]

\* The part of C22 that is about the high key alone.
C22_HighKeyKept ==
    (Merged /\ SortedPair(pre[left_block], pre[right_block])) =>
        /\ ~P_RIGHTMOST(pre[right_block]) =>
              pages[right_block].items[P_HIKEY] = pre[right_block].items[P_HIKEY]
        /\ ~P_RIGHTMOST(pages[right_block]) =>
              \A it \in ItemSet(DataItems(pages[right_block])) :
                  it.key <= pages[right_block].items[P_HIKEY].key

\* The blocks the Page Analyzer's walk outputs a PageStat for.
Analyzed_Blocks(pgs) ==
    LET arr == AnalyzeLeaves(pgs, find_leftmost_leaf(pgs, btm_root), <<>>, 2 * NewBlk)
    IN {arr[i].blockno : i \in 1 .. Len(arr)}

\* C23: after any sequence of merges the Page Analyzer's walk, started at the
\* page the Leaf Locator returns, outputs every live leaf; a merge leaves the
\* root's downlinks as they were and the half-dead left page's right-link as
\* it was.
C23_LiveLeavesReachable ==
    /\ (pc = "idle" \/ Merged) =>
          {b \in Blocks : LiveLeaf(pages[b])} \subseteq Analyzed_Blocks(pages)
    /\ Merged => /\ pages[RootBlk] = pre[RootBlk]
                 /\ pages[left_block].btpo_next = pre[left_block].btpo_next

\* A merge of the leftmost leaf has succeeded with another page half-dead as
\* well, and live leaves remain behind the half-dead ones.
C23_Witness ==
    /\ Merged
    /\ left_block = find_leftmost_leaf(pages, btm_root)
    /\ \E b \in Leaves \ {left_block} : P_ISHALFDEAD(pages[b])
    /\ \E b \in Leaves : LiveLeaf(pages[b]) /\ b \in Analyzed_Blocks(pages)

\* No page has changed since the analysis of this Execute call read it.
Unchanged_SinceAnalysis == x_fn = "execute" /\ x_pre # <<>> /\ pages = x_pre

\* C24, the capacity check: when execute_merge, called on a candidate the
\* analysis marked feasible and with no page changed since, comes to its
\* space check, the check passes.
C24_RecheckAccepts ==
    (x_pc = "merging" /\ pc = "check" /\ Unchanged_SinceAnalysis) =>
        HasSpace(pages[left_block], pages[right_block])

\* C24: an Execute call that finds a feasible candidate on an index nobody
\* else changes passes the Executor's capacity check and ends with
\* pages_merged = 1.
C24_FeasibleIsConservative ==
    /\ C24_RecheckAccepts
    /\ (x_fn = "execute" /\ x_pc \in {"close", "done"} /\ Feasible # {}
          /\ PageIsNew(pages[NewBlk]) = PageIsNew(x_pre[NewBlk])) => pages_merged = 1

\* C25: the leaf walk ends, whatever the sibling links are.
C25_WalkTerminates == <>(rd_pc = "done")

\* The walk ends whenever a live leaf is on every cycle of the links it
\* follows: the cap on the pages counted ends it.
C25_CapEndsLiveCycles ==
    (\E b \in WalkLeaves : LiveLeaf(pages[b]) /\ pages[b].btpo_next = b
                              /\ find_leftmost_leaf(pages, btm_root) = b)
        ~> (rd_pc = "done")

\* C26: a successful merge changes only the left page, the right page's
\* entries and left-link, and the left neighbor's right-link.  The right
\* neighbor and every other page are as they were; the right page keeps its
\* high key, level, flags and right-link; the left neighbor keeps its entries
\* and left-link; the left page keeps both its links.
C26_MergeFrame ==
    Merged =>
        LET L == left_block
            R == right_block
            changed == {L, R} \cup (IF leftsib = P_NONE THEN {} ELSE {leftsib})
        IN /\ \A b \in Blocks \ changed : pages[b] = pre[b]
           /\ rightsib # P_NONE => pages[rightsib] = pre[rightsib]
           /\ [pages[R] EXCEPT !.items = <<>>, !.btpo_prev = P_NONE]
                 = [pre[R] EXCEPT !.items = <<>>, !.btpo_prev = P_NONE]
           /\ P_RIGHTMOST(pages[R]) = P_RIGHTMOST(pre[R])
           /\ ~P_RIGHTMOST(pre[R]) => pages[R].items[P_HIKEY] = pre[R].items[P_HIKEY]
           /\ leftsib # P_NONE =>
                 [pages[leftsib] EXCEPT !.btpo_next = P_NONE]
                     = [pre[leftsib] EXCEPT !.btpo_next = P_NONE]
           /\ pages[L].btpo_prev = pre[L].btpo_prev
           /\ pages[L].btpo_next = pre[L].btpo_next

\* A merge in the middle of the chain has succeeded: it had a left neighbor
\* and a right neighbor, and changed the three pages it may change.
C26_Witness ==
    /\ Merged
    /\ leftsib # P_NONE /\ rightsib # P_NONE
    /\ pages[left_block] # pre[left_block]
    /\ pages[right_block].items # pre[right_block].items
    /\ pages[leftsib].btpo_next # pre[leftsib].btpo_next

\* The sibling chain from the leftmost leaf, and whether it is free of cycles.
Chain(pgs) == Walk(pgs, find_leftmost_leaf(pgs, btm_root), NewBlk + 1)
Acyclic(pgs) == Len(Chain(pgs)) = Cardinality(SeqSet(Chain(pgs)))

\* A page that ends the walk: uninitialized, or initialized and not a leaf.
StopsWalk(page) == PageIsNew(page) \/ (~P_ISDELETED(page) /\ ~P_ISLEAF(page))

\* The chain up to the first page that ends the walk, that page excluded.
RECURSIVE UpToStop(_, _)
UpToStop(pgs, q) ==
    IF q = <<>> \/ StopsWalk(pgs[Head(q)]) THEN <<>>
    ELSE <<Head(q)>> \o UpToStop(pgs, Tail(q))

\* The live leaves among them, in chain order.
ExpectedStats(pgs) ==
    Filter(UpToStop(pgs, Chain(pgs)), {b \in Blocks : LiveLeaf(pgs[b])})

StatBlocks(arr) == [i \in 1 .. Len(arr) |-> arr[i].blockno]

\* C27: on an acyclic chain that nobody changes the Page Analyzer outputs one
\* PageStat, the page's own, for each live leaf that lies on the chain before
\* the first uninitialized or non-leaf page, in chain order; deleted and
\* half-dead pages are passed over.  The walk taken step by step reads the
\* same pages in the same order and counts as many.
C27_StatsInChainOrder ==
    Acyclic(pages) =>
        LET arr == AnalyzeLeaves(pages, find_leftmost_leaf(pages, btm_root), <<>>, 2 * NewBlk)
        IN /\ StatBlocks(arr) = ExpectedStats(pages)
           /\ \A i \in 1 .. Len(arr) : arr[i] = PageStat(pages, arr[i].blockno)
           /\ rd_pc = "done" =>
                 /\ rd_seen = ExpectedStats(pages)
                 /\ rd_total = Len(ExpectedStats(pages))

\* The walk has ended on an acyclic chain of three pages whose middle page is
\* deleted or half-dead: the two live ones have a PageStat.
C27_Witness ==
    /\ rd_pc = "done" /\ Acyclic(pages)
    /\ Len(Chain(pages)) = 3 /\ ~LiveLeaf(pages[Chain(pages)[2]])
    /\ P_ISHALFDEAD(pages[Chain(pages)[2]])
    /\ Len(ExpectedStats(pages)) = 2 /\ rd_total = 2

\* The walk has ended at a page that is no leaf, keeping the PageStat of the
\* live leaf before it and not reaching the live leaf behind it.
C27_WitnessStop ==
    /\ rd_pc = "done" /\ Acyclic(pages)
    /\ Len(Chain(pages)) = 3
    /\ StopsWalk(pages[Chain(pages)[2]]) /\ LiveLeaf(pages[Chain(pages)[3]])
    /\ rd_total = 1

\* The bytes of a page's entries as the analysis sums them, and the bytes it
\* reserves for the high key of a merged page whose right page is r.
UsedBytes(page) == SumAligned(DataItems(page))
Reserve(r) ==
    IF ~P_RIGHTMOST(r) /\ Len(DataItems(r)) > 0
    THEN MAXALIGN(UsedBytes(r) \div Len(DataItems(r))) ELSE 0

\* C28: for every candidate on the list, estimated_space is the sum of the
\* two pages' used bytes; can_merge is set exactly when that sum is at most
\* 90% of the usable bytes of a page less the aligned average entry size of
\* the right page (less nothing when the right page is the rightmost or
\* empty); the right page is the left page's right sibling; and both pages
\* have a PageStat.
C28_CandidateArithmetic ==
    (Analyzed /\ x_fn = "analyze") =>
        \A i \in 1 .. Len(merge_candidates) :
            LET c == merge_candidates[i]
                L == x_pre[c.left_page]
                R == x_pre[c.right_page]
                usable == BLCKSZ - SizeOfPageHeaderData - SizeOfBTPageOpaqueData
            IN /\ c.estimated_space = UsedBytes(L) + UsedBytes(R)
               /\ c.can_merge <=> (10 * c.estimated_space <= 9 * (usable - Reserve(R)))
               /\ c.right_page = L.btpo_next
               /\ {c.left_page, c.right_page} \subseteq Analyzed_Blocks(x_pre)

\* An analysis has emitted a candidate that fits a page but not 90% of it,
\* its right page being the rightmost, and has left out the pair of a live
\* leaf whose right sibling, being half-dead, has no PageStat.
C28_Witness ==
    /\ Analyzed /\ x_fn = "analyze"
    /\ \E i \in 1 .. Len(merge_candidates) :
          /\ ~merge_candidates[i].can_merge
          /\ P_RIGHTMOST(x_pre[merge_candidates[i].right_page])
          /\ merge_candidates[i].estimated_space
                <= BLCKSZ - SizeOfPageHeaderData - SizeOfBTPageOpaqueData
    /\ \E b \in Leaves :
          /\ LiveLeaf(x_pre[b]) /\ ~AbovePct(x_pre[b])
          /\ x_pre[b].btpo_next # P_NONE /\ P_ISHALFDEAD(x_pre[x_pre[b].btpo_next])
          /\ \A i \in 1 .. Len(merge_candidates) : merge_candidates[i].left_page # b

\* An analysis has emitted a feasible candidate and an infeasible one.
C28_WitnessBoth ==
    /\ Analyzed /\ x_fn = "analyze"
    /\ \E i \in 1 .. Len(merge_candidates) : merge_candidates[i].can_merge
    /\ \E i \in 1 .. Len(merge_candidates) : ~merge_candidates[i].can_merge

\* A live leaf without data items: it holds a high key only, or nothing.
EmptyLive(page) == LiveLeaf(page) /\ DataItems(page) = <<>>

\* A call whose left page is an empty live leaf ends with false, every page
\* as it was and no lock held, and never comes to the critical section.
RefusesEmptyLeft ==
    /\ (pc = "done" /\ EmptyLive(pre[left_block])) =>
          /\ result = "false"
          /\ pages = pre
          /\ \A b \in Blocks : LockFree(b)
    /\ pc \in {"crit", "release"} => ~EmptyLive(pre[left_block])

\* C29: execute_merge refuses a left page that is an empty live leaf, with
\* false returned, no page changed and every lock released; no step makes an
\* empty live leaf half-dead, and no call changes the sibling links of the
\* empty live leaf that is its left page.
C29_EmptyLeftRefused ==
    /\ []RefusesEmptyLeft
    /\ [][\A b \in Blocks : EmptyLive(pages[b]) => ~P_ISHALFDEAD(pages'[b])]_vars
    /\ [][(pc # "idle" /\ EmptyLive(pages[left_block])) =>
             /\ pages'[left_block].btpo_prev = pages[left_block].btpo_prev
             /\ pages'[left_block].btpo_next = pages[left_block].btpo_next]_vars

\* C29 as it is worded: the sibling links of an empty live leaf are never
\* changed, whatever part the page has in a merge.
C29_EmptyLeafLinksNeverChange ==
    /\ []RefusesEmptyLeft
    /\ [][\A b \in Blocks : EmptyLive(pages[b]) =>
             /\ ~P_ISHALFDEAD(pages'[b])
             /\ pages'[b].btpo_prev = pages[b].btpo_prev
             /\ pages'[b].btpo_next = pages[b].btpo_next]_vars

\* A call on an empty live left page, whose siblings and space check were
\* in order, has been refused.
C29_Witness ==
    /\ Aborted
    /\ EmptyLive(pre[left_block])
    /\ LiveLeaf(pre[right_block]) /\ pre[right_block].btpo_prev = left_block
    /\ HasSpace(pre[left_block], pre[right_block])
    /\ ~P_RIGHTMOST(pre[left_block]) /\ Len(pre[left_block].items) = 1

\* ---------------------------------------------------------------- C30

\* How many locks the calls made so far leave on a block.
HeldOn(calls, blk) ==
    Cardinality({i \in 1 .. Len(calls) : calls[i].op = "LockBuffer" /\ calls[i].blk = blk})
    - Cardinality({i \in 1 .. Len(calls) :
                      calls[i].op = "UnlockReleaseBuffer" /\ calls[i].blk = blk})

Lockable == {BTREE_METAPAGE} \cup Blocks
HeldBlocks(calls) == {b \in Lockable : HeldOn(calls, b) # 0}

\* C30: find_leftmost_leaf, the leaf walk and the selection loop hold at most
\* one page lock at any time, always a shared one, and have released it
\* before they lock the next page and before they return, on every path:
\* the missing root, the new, deleted, empty or broken page of the descent,
\* the new page and the page that is no leaf in the walk, and the deleted and
\* half-dead pages the walk passes over.
C30_OneSharedLockAtATime ==
    rd_pc \in {"locks", "done"} =>
       /\ \A i \in 1 .. Len(ev) : ev[i].mode = "BT_READ"
       /\ \A b \in Lockable : HeldOn(ev, b) \in {0, 1}
       /\ Cardinality(HeldBlocks(ev)) <= 1
       /\ \A i \in 1 .. Len(ev) :
             ev[i].op = "LockBuffer" => HeldBlocks(SubSeq(ev, 1, i - 1)) = {}
       /\ rd_pc = "done" => HeldBlocks(ev) = {}

LockedAt(calls, blk) ==
    {i \in 1 .. Len(calls) : calls[i].op = "LockBuffer" /\ calls[i].blk = blk}

\* The analysis has returned after a walk that passed over a deleted and a
\* half-dead leaf and was ended by a new page or a page that is no leaf, and
\* after the selection loop locked a leaf a second time.
C30_Witness ==
    /\ rd_pc = "done"
    /\ \E b \in Leaves : P_ISDELETED(pages[b]) /\ LockedAt(ev, b) # {}
    /\ \E b \in Leaves : ~PageIsNew(pages[b]) /\ P_ISHALFDEAD(pages[b]) /\ LockedAt(ev, b) # {}
    /\ \E b \in Leaves : (PageIsNew(pages[b]) \/ ~P_ISLEAF(pages[b])) /\ LockedAt(ev, b) # {}
    /\ \E b \in Leaves : Cardinality(LockedAt(ev, b)) = 2

\* The descent has failed on a root without a valid downlink, two locks
\* taken and released.
C30_WitnessDescentFails ==
    /\ rd_pc = "done"
    /\ btm_root = RootBlk /\ ~PageIsNew(pages[RootBlk])
    /\ Len(pages[RootBlk].items) > 0
    /\ ~BlockNumberIsValid(pages[RootBlk].items[1].blk)
    /\ Len(ev) = 4

\* The metapage names no root: one lock taken and released.
C30_WitnessNoRoot == rd_pc = "done" /\ btm_root = P_NONE /\ Len(ev) = 2

\* A page lock is held while the analysis is under way.
C30_WitnessHeld == rd_pc = "locks" /\ \E b \in Leaves : HeldBlocks(ev) = {b}

\* ---------------------------------------------------------------- C31

\* The candidate execute_merge was called on, and its two pages' used bytes
\* as the analysis of this call read them.
MergedCandidate == merge_candidates[x_invoked[Len(x_invoked)]]
EstimatedAtAnalysis ==
    SumAligned(DataItems(x_pre[MergedCandidate.left_page]))
    + SumAligned(DataItems(x_pre[MergedCandidate.right_page]))

\* Execute is past its analysis and has not returned.
Reporting == x_fn = "execute" /\ x_pc \in {"loop", "close", "done"}

\* C31 as stated: space_reclaimed is 0 when pages_merged is 0; when
\* pages_merged is 1 it is the block size minus the merged candidate's
\* estimate of the analysis, strictly between 0 and the block size.
C31_ReclaimedStrictlyInside ==
    Reporting =>
       /\ pages_merged \in {0, 1}
       /\ pages_merged = 0 => space_reclaimed = 0
       /\ pages_merged = 1 =>
             /\ space_reclaimed = BLCKSZ - EstimatedAtAnalysis
             /\ 0 < space_reclaimed /\ space_reclaimed < BLCKSZ

\* C31, amended: when pages_merged is 1 the value is above 0 and at most the
\* block size, and it is the block size only when both pages held no entry
\* at analysis time, the left one having received its entries since.
C31_ReclaimedWithinBlock ==
    Reporting =>
       /\ pages_merged \in {0, 1}
       /\ pages_merged = 0 => space_reclaimed = 0
       /\ pages_merged = 1 =>
             /\ space_reclaimed = BLCKSZ - EstimatedAtAnalysis
             /\ 0 < space_reclaimed /\ space_reclaimed <= BLCKSZ
             /\ space_reclaimed = BLCKSZ =>
                   /\ DataItems(x_pre[MergedCandidate.left_page]) = <<>>
                   /\ DataItems(x_pre[MergedCandidate.right_page]) = <<>>
                   /\ x_pre # pages

\* A merge has succeeded on a candidate with entries on both pages at analysis
\* time, and the call reports less than a block.
C31_Witness ==
    /\ Reporting /\ pages_merged = 1
    /\ DataItems(x_pre[MergedCandidate.left_page]) # <<>>
    /\ DataItems(x_pre[MergedCandidate.right_page]) # <<>>
    /\ space_reclaimed < BLCKSZ

\* A merge has succeeded on a pair that was empty when analysed.
C31_WitnessWholeBlock == Reporting /\ pages_merged = 1 /\ space_reclaimed = BLCKSZ

\* A merge was attempted and refused: nothing is reported as reclaimed.
C31_WitnessRefused ==
    Reporting /\ x_invoked # <<>> /\ x_pc = "close" /\ pages_merged = 0

\* ---------------------------------------------------------------- C32

\* The first entry that holds a child pointer, and what can be wrong with a
\* page the descent visits.
FirstEntry(page) == page.items[P_FIRSTDATAKEY(page)]
NoEntries(page) == PageGetMaxOffsetNumber(page) < P_FIRSTDATAKEY(page)
Uninitialized(page) == PageIsNew(page)
Deleted(page) == ~PageIsNew(page) /\ P_ISDELETED(page)
LeafSeen(page) == ~PageIsNew(page) /\ ~P_ISDELETED(page) /\ P_ISLEAF(page)
InnerSeen(page) == ~PageIsNew(page) /\ ~P_ISDELETED(page) /\ ~P_ISLEAF(page)
BrokenInner(page) ==
    InnerSeen(page) /\ (NoEntries(page) \/ ~ItemIdIsUsed(FirstEntry(page))
                          \/ ~BlockNumberIsValid(FirstEntry(page).blk))

\* The pages visited lead from the root along first-entry child pointers.
FollowsFirstEntries ==
    /\ rd_seen # <<>> => rd_seen[1] = btm_root
    /\ \A i \in 1 .. Len(rd_seen) - 1 :
          /\ InnerSeen(pages[rd_seen[i]]) /\ ~BrokenInner(pages[rd_seen[i]])
          /\ rd_seen[i + 1] = FirstEntry(pages[rd_seen[i]]).blk

\* What is returned is none or the last page visited, seen as a leaf that is
\* not deleted; nothing is locked.
ReturnsNoneOrLeaf ==
    /\ FollowsFirstEntries
    /\ rd_pc = "done" =>
          /\ rd_blkno = find_leftmost_leaf(pages, btm_root)
          /\ rd_blkno # P_NONE =>
                /\ rd_seen # <<>> /\ rd_blkno = rd_seen[Len(rd_seen)]
                /\ LeafSeen(pages[rd_blkno])
          /\ \A b \in Blocks : LockFree(b)
    /\ Cardinality({b \in Blocks : ~LockFree(b)}) <= 1

\* C32 as stated: the Leaf Locator returns none or a non-deleted leaf reached
\* from the root along first-entry child pointers; it returns none when the
\* tree has no root or when any page it visited is uninitialized, deleted,
\* has no entries, has an unused first entry or an invalid child pointer;
\* it holds no lock when it returns.
C32_NoneOnAnyEmptyPage ==
    /\ ReturnsNoneOrLeaf
    /\ rd_pc = "done" =>
          ((btm_root = P_NONE
            \/ \E i \in 1 .. Len(rd_seen) :
                  LET page == pages[rd_seen[i]]
                  IN Uninitialized(page) \/ Deleted(page) \/ BrokenInner(page)
                     \/ (~PageIsNew(page) /\ NoEntries(page)))
           => rd_blkno = P_NONE)

\* C32, amended: the tests on the entries are made on inner pages only; a
\* leaf that is neither uninitialized nor deleted is returned whether or not
\* it holds entries, and none is returned in exactly the cases listed.
C32_LocatorContract ==
    /\ ReturnsNoneOrLeaf
    /\ rd_pc = "done" =>
          ((btm_root = P_NONE
            \/ \E i \in 1 .. Len(rd_seen) :
                  LET page == pages[rd_seen[i]]
                  IN Uninitialized(page) \/ Deleted(page) \/ BrokenInner(page))
           <=> rd_blkno = P_NONE)

\* The descent has returned a leaf two levels below the root.
C32_Witness ==
    /\ rd_pc = "done" /\ rd_blkno # P_NONE /\ Len(rd_seen) = 3
    /\ DataItems(pages[rd_blkno]) # <<>>

\* The descent has returned a leaf that holds no entries.
C32_WitnessEmptyLeaf ==
    rd_pc = "done" /\ rd_blkno # P_NONE /\ pages[rd_blkno].items = <<>>

\* The descent has returned none below the root, on an inner page whose first
\* entry is unused.
C32_WitnessUnused ==
    /\ rd_pc = "done" /\ rd_blkno = P_NONE /\ Len(rd_seen) = 2
    /\ InnerSeen(pages[rd_seen[2]]) /\ ~NoEntries(pages[rd_seen[2]])
    /\ ~ItemIdIsUsed(FirstEntry(pages[rd_seen[2]]))

\* The descent holds the lock of a page below the root.
C32_WitnessLocked == rd_pc = "locked" /\ Len(rd_seen) = 2 /\ ~LockFree(rd_blkno)

====
